---- MODULE Spec2Model ----
(***************************************************************************)
(* Monitor mode of the Instagram commenter bot (src/src/main.ts) together  *)
(* with the session it drives (src/src/bot.ts).  One logical thread of     *)
(* control: pc is the position of runMonitorMode.  External capabilities   *)
(* (browser, page, file system, AI generator) are nondeterministic         *)
(* observations drawn with \E; every awaited call on a page, the browser   *)
(* launch and the store's file access may fail.  browser.close() and the   *)
(* timed delays are taken to succeed.                                      *)
(*                                                                         *)
(* Spec follows runMonitorMode, with a session's initialization and task   *)
(* as single steps.  SessionSpec follows one call of launchBotForTask from *)
(* await to await, interleaved with the page's 'response' callback.        *)
(***************************************************************************)
EXTENDS Integers, Sequences, FiniteSets, TLC

VARIABLES
    accounts,        \* config.accounts
    pc,              \* position of runMonitorMode
    monitorBrowser,  \* the standing monitoring session's browser
    targetMap,       \* Map target -> tasks, in insertion order
    profileStats,    \* in-memory snapshot map
    csv,             \* rows of profile_stats.csv below the header
    tIdx,            \* index into monitoredUsernames of the current cycle
    currentStats,    \* stats fetched for the current target
    tasks,           \* tasks of the running fan-out
    taskIdx,         \* position of the fan-out loop
    allTasksSucceededOrSkipped,
    taskBrowsers,    \* open browsers of task sessions
    taskResult,      \* value launchBotForTask is about to return
    retryTasks,      \* per target: the tasks of its last fan-out, if that failed
    storeFailures,   \* store accesses that have thrown so far
    visit,           \* what happened in the current loop iteration
    bot,             \* one InstagramBot session, followed step by step
    run,             \* the process started in test-comment or check-accounts
                     \* mode, and the files under data/ that outlive it
    typing           \* one call of naturalTyping, followed key by key

vars == <<accounts, pc, monitorBrowser, targetMap, profileStats, csv, tIdx,
          currentStats, tasks, taskIdx, allTasksSucceededOrSkipped,
          taskBrowsers, taskResult, retryTasks, storeFailures, visit, bot, run,
          typing>>

\* Bounds of the model.
MaxPostCount == 1
MaxStoreFailures == 1

\* Follower counts a fetch can return: the code only tests them for
\* inequality, so two values show every case.
FollowerCounts == {0, 1}

TargetNames == {"t1", "t2", "t3"}

Account(en, u, ts) == [enabled |-> en, username |-> u, targets |-> ts]

\* The configurations explored: two enabled accounts subscribed to one
\* target, beside a disabled account with targets of its own; one account
\* with two targets; an account that lists one target twice; no enabled
\* account; an enabled account without targets.
Configs ==
    { << Account(TRUE, "a1", <<"t1">>), Account(TRUE, "a2", <<"t1">>),
         Account(FALSE, "a3", <<"t1", "t3">>) >>,
      << Account(TRUE, "a1", <<"t1", "t2">>) >>,
      << Account(TRUE, "a1", <<"t1", "t1">>) >>,
      << Account(FALSE, "a1", <<"t1">>) >>,
      << Account(TRUE, "a1", <<>>) >> }

Stats(p, f) == [postCount |-> p, followerCount |-> f]
NoStats == Stats(0 - 1, 0 - 1)
Row(u, p, f) == [username |-> u, post_count |-> p, follower_count |-> f]

\* Contents of profile_stats.csv found at startup.
InitialCsvs == { <<>>, << Row("t1", 1, 0) >> }

----------------------------------------------------------------------------
(* runMonitorMode: targetMap                                               *)

\* A filter that lets every account through.
allAccounts(accs) == accs

\* Line 381: config.accounts.filter(acc => acc.enabled)
enabledAccounts(accs) == SelectSeq(accs, LAMBDA acc : acc.enabled)

\* One entry per element of account.targets, in the order of the two forEach.
RECURSIVE subscriptions(_)
subscriptions(accs) ==
    IF accs = <<>> THEN <<>>
    ELSE [i \in 1..Len(Head(accs).targets) |->
              [account |-> Head(accs).username, target |-> Head(accs).targets[i]]]
         \o subscriptions(Tail(accs))

RECURSIVE keysInOrder(_, _)
keysInOrder(subs, seen) ==
    IF subs = <<>> THEN <<>>
    ELSE IF Head(subs).target \in seen THEN keysInOrder(Tail(subs), seen)
    ELSE <<Head(subs).target>>
         \o keysInOrder(Tail(subs), seen \cup {Head(subs).target})

tasksOf(subs, t) ==
    LET mine == SelectSeq(subs, LAMBDA s : s.target = t)
    IN  [i \in 1..Len(mine) |-> mine[i].account]

buildTargetMap(accs) ==
    LET subs == subscriptions(enabledAccounts(accs))
        keys == keysInOrder(subs, {})
    IN  [i \in 1..Len(keys) |-> [target |-> keys[i], tasks |-> tasksOf(subs, keys[i])]]

monitoredUsernames(tm) == [i \in 1..Len(tm) |-> tm[i].target]

targetMapGet(tm, t) ==
    LET hits == {i \in 1..Len(tm) : tm[i].target = t}
    IN  IF hits = {} THEN <<>> ELSE tm[CHOOSE i \in hits : TRUE].tasks

----------------------------------------------------------------------------
(* The per-target store                                                    *)

loadProfileStatsFromCsv(lines) ==
    [u \in {lines[i].username : i \in 1..Len(lines)} |->
        LET last == CHOOSE i \in 1..Len(lines) :
                        /\ lines[i].username = u
                        /\ \A j \in 1..Len(lines) : lines[j].username = u => j <= i
        IN  Stats(lines[last].post_count, lines[last].follower_count)]

\* An update that appends the new entry without looking for the key.
appendToCsv(lines, username, newPostCount, newFollowerCount) ==
    Append(lines, Row(username, newPostCount, newFollowerCount))

\* Lines 62-86 between the read and the write: the first line that starts
\* with "username," is replaced, else the entry is pushed.
updateProfileStatsInCsv(lines, username, newPostCount, newFollowerCount) ==
    LET newEntry == Row(username, newPostCount, newFollowerCount)
        hits == {i \in 1..Len(lines) : lines[i].username = username}
    IN  IF hits # {}
        THEN LET first == CHOOSE i \in hits : \A j \in hits : i <= j
             IN  [lines EXCEPT ![first] = newEntry]
        ELSE Append(lines, newEntry)

----------------------------------------------------------------------------
(* getProfileStats: what the monitoring page shows, and the result         *)

PageStates ==
    [page : {"exception", "unavailable", "private", "noPostText",
             "nanPostCount", "noFollowerCount"},
     screenshotOk : BOOLEAN, postCount : {0}, followerCount : {0}]
    \cup
    [page : {"stats"}, screenshotOk : BOOLEAN,
     postCount : 0..MaxPostCount, followerCount : FollowerCounts]

Fetched(kind, p, f) == [kind |-> kind, postCount |-> p, followerCount |-> f]

\* The catch block: log, screenshot, return null.  The screenshot is awaited
\* outside any try, so its rejection leaves getProfileStats.
getProfileStatsCatch(env) ==
    IF env.screenshotOk THEN Fetched("null", 0, 0) ELSE Fetched("throw", 0, 0)

getProfileStats(env) ==
    CASE env.page = "exception" -> getProfileStatsCatch(env)
      [] env.page \in {"unavailable", "private", "nanPostCount"} -> Fetched("null", 0, 0)
      [] env.page \in {"noPostText", "noFollowerCount"} ->
            IF env.screenshotOk THEN Fetched("null", 0, 0) ELSE getProfileStatsCatch(env)
      [] OTHER -> Fetched("stats", env.postCount, env.followerCount)

----------------------------------------------------------------------------
(* InstagramBot.login, InstagramBot.init, initializeBotSession             *)

\* How one call of login() ends: the authenticated marker appears after
\* submitting; the username field never appears but an authenticated marker
\* is found; the username field never appears; the marker never appears.
LoginOutcomes == {"loggedIn", "alreadyLoggedIn", "noUsernameInput", "loginFailed"}

loginThrows(outcome) == outcome \in {"noUsernameInput", "loginFailed"}

\* A session start in which nothing goes wrong and the account is logged
\* in; cookieFile: the account's cookie file exists; saveOk1, saveOk2: the
\* first and the second call of context.storageState succeed.
CalmInit ==
    [contextOk |-> TRUE, gotoOk |-> TRUE, checkIfLoggedIn |-> TRUE,
     login1 |-> "loggedIn", login2 |-> "loggedIn",
     cookieFile |-> TRUE, saveOk1 |-> TRUE, saveOk2 |-> TRUE]

\* What a session start can meet, up to the observation that ends it (what
\* would have been observed after that point is left at its calm value).
InitPaths ==
    { CalmInit,
      [CalmInit EXCEPT !.contextOk = FALSE],
      [CalmInit EXCEPT !.gotoOk = FALSE] }
    \cup { [CalmInit EXCEPT !.checkIfLoggedIn = FALSE, !.login1 = o] :
              o \in {"loggedIn", "alreadyLoggedIn"} }
    \cup { [CalmInit EXCEPT !.checkIfLoggedIn = FALSE, !.login1 = o1, !.login2 = o2] :
              o1 \in {"noUsernameInput", "loginFailed"}, o2 \in LoginOutcomes }
    \cup { [CalmInit EXCEPT !.checkIfLoggedIn = FALSE, !.login1 = "loggedIn",
                            !.saveOk1 = FALSE, !.login2 = o2] :
              o2 \in LoginOutcomes }

\* The session-state on disk during init: whether the cookie file exists and
\* how many storageState calls were made.
Cookies(file, saves) == [file |-> file, saves |-> saves]

storageStateOk(env, n) == IF n = 1 THEN env.saveOk1 ELSE env.saveOk2

\* An ensureCookiesAreSaved that never writes.
ensureCookiesNeverSaved(env, ck) == ck

\* bot.ts 74-84: write the cookie file if it is missing; a failed write is
\* logged and ignored.
ensureCookiesAreSaved(env, ck) ==
    IF ck.file THEN ck
    ELSE Cookies(storageStateOk(env, ck.saves + 1), ck.saves + 1)

\* bot.ts 188-257: one call of login() with the given outcome.  The cookie
\* file is written at line 256 (a failed write leaves login by exception) or,
\* on the already-logged-in return of line 202-205, by ensureCookiesAreSaved.
login(env, outcome, ck) ==
    CASE outcome = "loggedIn" ->
            IF storageStateOk(env, ck.saves + 1)
            THEN [throws |-> FALSE, ck |-> Cookies(TRUE, ck.saves + 1)]
            ELSE [throws |-> TRUE, ck |-> Cookies(ck.file, ck.saves + 1)]
      [] outcome = "alreadyLoggedIn" ->
            [throws |-> FALSE, ck |-> ensureCookiesAreSaved(env, ck)]
      [] OTHER -> [throws |-> TRUE, ck |-> ck]

InitResult(ok, why, logins, path, ck) ==
    [ok |-> ok, why |-> why, logins |-> logins, path |-> path, ck |-> ck]

\* bot.init: returns true, or throws (ok = FALSE).  path: how the session
\* came to be authenticated.
init(env) ==
    LET ck0 == Cookies(env.cookieFile, 0)
        l1 == login(env, env.login1, ck0)
        l2 == login(env, env.login2, l1.ck)
    IN  IF ~env.gotoOk THEN InitResult(FALSE, "navigation", 0, "none", ck0)
        ELSE IF env.checkIfLoggedIn
        THEN InitResult(TRUE, "none", 0, "alreadyLoggedIn", ensureCookiesAreSaved(env, ck0))
        ELSE IF ~l1.throws THEN InitResult(TRUE, "none", 1, env.login1, l1.ck)
        ELSE IF ~l2.throws THEN InitResult(TRUE, "none", 2, env.login2, l2.ck)
        ELSE InitResult(FALSE, "login", 2, "none", l2.ck)

\* The paths, with or without a cookie file and with every outcome of the
\* storageState calls that are made on them.
InitEnvs ==
    { e \in { [q EXCEPT !.cookieFile = c, !.saveOk1 = q.saveOk1 /\ s1, !.saveOk2 = s2] :
                 q \in InitPaths, c \in BOOLEAN, s1 \in BOOLEAN, s2 \in BOOLEAN } :
         LET made == IF e.contextOk THEN init(e).ck.saves ELSE 0
         IN  /\ (made < 1) => e.saveOk1
             /\ (made < 2) => e.saveOk2 }

\* A session that is handed to the caller although bot.init threw.
initializeBotSessionIgnoringInit(env) == [init(env) EXCEPT !.ok = TRUE]

\* The try block of initializeBotSession, after chromium.launch succeeded:
\* ok = TRUE is the returned {browser, bot}; ok = FALSE is the catch block,
\* which closes the browser and returns null.
initializeBotSession(env) ==
    IF ~env.contextOk
    THEN InitResult(FALSE, "context", 0, "none", Cookies(env.cookieFile, 0))
    ELSE init(env)

----------------------------------------------------------------------------
(* InstagramBot.runCommentTask                                             *)

\* A task in which every step finds what it looks for: one candidate post,
\* an image post, a comment area, an enabled Post button.
CalmTask ==
    [gotoOk |-> TRUE, isPrivate |-> FALSE, postCount |-> 1, allPostLinks |-> 1,
     openOk |-> TRUE, video |-> FALSE, imageSrc |-> "img", mediaOk |-> TRUE,
     aiOk |-> TRUE, textarea |-> TRUE,
     typeOk |-> TRUE, postButton |-> "enabled", clickOk |-> TRUE,
     verify |-> "found", screenshotOk |-> TRUE, catchScreenshotOk |-> TRUE]

\* Whether the two diagnostic screenshots of a path succeed.
Shots(env) ==
    { [env EXCEPT !.screenshotOk = s, !.catchScreenshotOk = c] :
          s \in BOOLEAN, c \in BOOLEAN }

\* What a task can meet, up to the observation that ends it.
TaskEnvs ==
    UNION { Shots(e) : e \in
        { [CalmTask EXCEPT !.gotoOk = FALSE],
          [CalmTask EXCEPT !.isPrivate = TRUE],
          [CalmTask EXCEPT !.postCount = 0, !.allPostLinks = 0],
          [CalmTask EXCEPT !.postCount = 0, !.allPostLinks = 1],
          [CalmTask EXCEPT !.openOk = FALSE],
          [CalmTask EXCEPT !.video = TRUE],
          [CalmTask EXCEPT !.imageSrc = "static"],
          [CalmTask EXCEPT !.imageSrc = "none"],
          [CalmTask EXCEPT !.mediaOk = FALSE],
          [CalmTask EXCEPT !.video = TRUE, !.mediaOk = FALSE],
          [CalmTask EXCEPT !.aiOk = FALSE],
          [CalmTask EXCEPT !.textarea = FALSE],
          [CalmTask EXCEPT !.typeOk = FALSE],
          [CalmTask EXCEPT !.postButton = "absent"],
          [CalmTask EXCEPT !.postButton = "disabled"],
          [CalmTask EXCEPT !.clickOk = FALSE],
          [CalmTask EXCEPT !.verify = "throws"],
          [CalmTask EXCEPT !.verify = "notFound"],
          CalmTask } }

\* A profile on which the private marker is never looked for.
neverPrivate(env) == FALSE

\* Line 270: the private marker is on the profile page.
isPrivate(env) == env.isPrivate

\* A candidate test that counts pinned posts as well.
hasAnyPost(env) == env.allPostLinks > 0

\* Lines 277-285: a post link without the pinned icon exists.
hasCandidatePost(env) == env.postCount > 0

\* Lines 286-292: which of the two warnings is logged when none exists.
noPostWarning(env) == IF env.allPostLinks > 0 THEN "allPinned" ELSE "noPosts"

Media(image, video) == [postImageUrl |-> image, postVideoUrl |-> video]

\* A media extraction that hands on a captured video URL for every post.
extractMediaKeepingCapture(env, captured) ==
    IF ~env.mediaOk THEN Media("undefined", "undefined")
    ELSE IF env.video THEN Media("undefined", captured)
    ELSE Media(IF env.imageSrc = "img" THEN env.imageSrc ELSE "undefined", captured)

\* Lines 323-368: a post with a video marker takes the captured URL, if any;
\* any other post takes the first visible image whose src is no placeholder.
\* A rejected lookup is caught at line 366 before either URL is assigned.
extractMedia(env, captured) ==
    IF ~env.mediaOk THEN Media("undefined", "undefined")
    ELSE IF env.video THEN Media("undefined", captured)
    ELSE Media(IF env.imageSrc = "img" THEN env.imageSrc ELSE "undefined", "undefined")

\* A generator call whose failure is replaced by a stock comment.
commentOrFallback(env) == IF env.aiOk THEN "generated" ELSE "fallback"

\* Lines 371-377: the awaited generator call returns a comment or rejects.
generatedComment(env) == IF env.aiOk THEN "generated" ELSE "none"

\* A comment-area test that finds an area on every post.
commentAreaAssumed(env) == TRUE

\* Line 381: commentTextarea.count() > 0
hasCommentArea(env) == env.textarea

\* A submit test that only looks for the button.
postButtonPresent(env) == env.postButton # "absent"

\* Line 401: the Post button exists and is enabled.
postButtonUsable(env) == env.postButton = "enabled"

\* A verification whose failure fails the task.
resultRequiringVerification(found) == IF found THEN "SUCCESS" ELSE "FAILED"

\* Lines 414-422: both branches log the interaction and return SUCCESS.
resultAfterVerification(found) == IF found THEN "SUCCESS" ELSE "SUCCESS"

TaskOutcome(r, submitted, logged) == [result |-> r, submitted |-> submitted, logged |-> logged]

\* The catch block of runCommentTask: screenshot, return FAILED.
runCommentTaskCatch(env, submitted) ==
    IF env.catchScreenshotOk THEN TaskOutcome("FAILED", submitted, FALSE)
    ELSE TaskOutcome("THROW", submitted, FALSE)

\* A diagnostic screenshot inside the try block, then return r.
screenshotThenReturn(env, r) ==
    IF env.screenshotOk THEN TaskOutcome(r, FALSE, FALSE)
    ELSE runCommentTaskCatch(env, FALSE)

runCommentTask(env) ==
    IF ~env.gotoOk THEN runCommentTaskCatch(env, FALSE)
    ELSE IF isPrivate(env) THEN TaskOutcome("SKIPPED", FALSE, FALSE)
    ELSE IF ~hasCandidatePost(env) THEN screenshotThenReturn(env, "SKIPPED")
    ELSE IF ~env.openOk THEN runCommentTaskCatch(env, FALSE)
    ELSE IF generatedComment(env) = "none" THEN runCommentTaskCatch(env, FALSE)
    ELSE IF ~hasCommentArea(env) THEN screenshotThenReturn(env, "SKIPPED")
    ELSE IF ~env.typeOk THEN runCommentTaskCatch(env, FALSE)
    ELSE IF ~postButtonUsable(env) THEN screenshotThenReturn(env, "FAILED")
    ELSE IF ~env.clickOk THEN runCommentTaskCatch(env, FALSE)
    ELSE IF env.verify = "throws" THEN runCommentTaskCatch(env, TRUE)
    ELSE TaskOutcome(resultAfterVerification(env.verify = "found"), TRUE, TRUE)

\* A caller without the catch block: the task's exception is its result.
launchBotForTaskRethrowing(env) == runCommentTask(env).result

\* launchBotForTask, once the session exists: the try/catch around the task.
launchBotForTask(env) ==
    LET r == runCommentTask(env)
    IN  IF r.result = "THROW" THEN "FAILED" ELSE r.result

----------------------------------------------------------------------------
(* runMonitorMode: decisions of one loop iteration                         *)

hasPrevious(stats, t) == t \in DOMAIN stats

previousStats(stats, t) == IF hasPrevious(stats, t) THEN stats[t] ELSE NoStats

\* classify with a first observation that shows posts taken for a new post.
classifyFirstAsNewPost(stats, t, cur) ==
    IF ~hasPrevious(stats, t)
    THEN (IF cur.postCount > 0 THEN "newPost" ELSE "initialize")
    ELSE IF cur.postCount > stats[t].postCount THEN "newPost"
    ELSE IF cur.postCount < stats[t].postCount THEN "deleted"
    ELSE IF cur.followerCount # stats[t].followerCount THEN "followers"
    ELSE "noChange"

\* classify without the branch for a changed follower count.
classifyIgnoringFollowers(stats, t, cur) ==
    IF ~hasPrevious(stats, t) THEN "initialize"
    ELSE IF cur.postCount > stats[t].postCount THEN "newPost"
    ELSE IF cur.postCount < stats[t].postCount THEN "deleted"
    ELSE "noChange"

\* classify that stores the fetched stats whenever nothing was posted.
classifyAlwaysStoring(stats, t, cur) ==
    IF ~hasPrevious(stats, t) THEN "initialize"
    ELSE IF cur.postCount > stats[t].postCount THEN "newPost"
    ELSE IF cur.postCount < stats[t].postCount THEN "deleted"
    ELSE "followers"

\* The if / else-if chain of lines 459-530.
classify(stats, t, cur) ==
    IF ~hasPrevious(stats, t) THEN "initialize"
    ELSE IF cur.postCount > stats[t].postCount THEN "newPost"
    ELSE IF cur.postCount < stats[t].postCount THEN "deleted"
    ELSE IF cur.followerCount # stats[t].followerCount THEN "followers"
    ELSE "noChange"

\* An assignment that replaces the whole map by the one entry.
assignStatsForgettingOthers(stats, t, cur) == (t :> cur)

\* profileStats[targetUsername] = currentStats
assignStats(stats, t, cur) == (t :> cur) @@ stats

\* taskFailed that forgets the session that could not be started.
taskFailedOnlyFailed(result) == result = "FAILED"

\* result === 'FAILED' || result === 'LAUNCH_ERROR'
taskFailed(result) == result \in {"FAILED", "LAUNCH_ERROR"}

\* A fan-out that commits whatever its tasks returned.
commitAlways(allOk) == TRUE

\* The test of line 503.
commitAfterFanout(allOk) == allOk

\* A fan-out that leaves out the first subscribed account.
fanoutTasksWithoutFirst(tm, t) ==
    IF targetMapGet(tm, t) = <<>> THEN <<>> ELSE Tail(targetMapGet(tm, t))

\* The list the fan-out loop runs over.
fanoutTasks(tm, t) == targetMapGet(tm, t)

\* browser.close()
closeBrowser(open, b) == open \ {b}

\* A finally block that leaves the monitoring browser as it is.
leaveMonitorBrowser(b) == b

\* Lines 544-547: await monitorBrowser.close()
closeMonitorBrowser(b) == "closed"

\* A catch block that returns null and leaves the browser open.
leaveOpenAfterInitFailure(open, b) == open

\* The catch block of initializeBotSession closes the browser it launched.
closeAfterInitFailure(open, b) == closeBrowser(open, b)

----------------------------------------------------------------------------
(* State                                                                   *)

\* Matching media URLs the page may load.
VideoUrls == {"v1", "v2"}

\* capturedVideoUrl === undefined
NoUrl == "undefined"

\* An InstagramBot as constructed (bot.ts 24-25), no session started yet.
NoBot ==
    [pc |-> "new", browser |-> "none", initEnv |-> CalmInit, logins |-> 0,
     why |-> "none", path |-> "none", cookies |-> Cookies(TRUE, 0), env |-> CalmTask, isCapturingVideo |-> FALSE,
     capturedVideoUrl |-> NoUrl, postImageUrl |-> NoUrl, postVideoUrl |-> NoUrl,
     did |-> {},
     warning |-> "none", comment |-> "none", result |-> "none",
     delivered |-> "none", dropped |-> {}]

\* Accounts that have files under data/fingerprints.
AccountNames == {"a1", "a2", "a3"}

\* fs.existsSync(fingerprintPath) is false.
NoFingerprint == "none"

\* The first line of interaction_log.csv (main.ts 570).
LogHeader == [account |-> "account_username", target |-> "target_username"]

\* No process started yet: nothing chosen, no session, and on disk no
\* fingerprint and no interaction log.
NoRun ==
    [pc |-> "off", mode |-> "none", argv3 |-> "none", runs |-> 0,
     fingerprints |-> [a \in AccountNames |-> NoFingerprint],
     log |-> [exists |-> FALSE, lines |-> <<>>],
     chosen |-> 0, idx |-> 0, browser |-> "none", fingerprint |-> NoFingerprint,
     result |-> "none",
     inits |-> <<>>, launched |-> <<>>, tasksRun |-> 0, checked |-> <<>>,
     entered |-> <<>>, skipped |-> <<>>, overlap |-> FALSE, appended |-> "none",
     shouldPause |-> FALSE, pausedAt |-> "none"]

\* No call of naturalTyping is under way.
NoTyping ==
    [text |-> <<>>, typoChance |-> 0, pos |-> 0, phase |-> "idle", field |-> <<>>,
     typos |-> 0, corrections |-> 0]

NoVisit ==
    [target |-> "", retry |-> FALSE, hadPrev |-> FALSE, prev |-> NoStats, csvBefore |-> <<>>,
     page |-> "none", fetch |-> "none", cur |-> NoStats, branch |-> "none",
     launched |-> <<>>, results |-> <<>>, writes |-> <<>>, cycle |-> <<>>,
     succeeded |-> {}]

Init ==
    /\ accounts \in Configs
    /\ csv \in InitialCsvs
    /\ pc = "start"
    /\ monitorBrowser = "none"
    /\ targetMap = <<>>
    /\ profileStats = <<>>
    /\ tIdx = 0
    /\ currentStats = NoStats
    /\ tasks = <<>>
    /\ taskIdx = 0
    /\ allTasksSucceededOrSkipped = TRUE
    /\ taskBrowsers = {}
    /\ taskResult = "none"
    /\ retryTasks = [t \in TargetNames |-> <<>>]
    /\ storeFailures = 0
    /\ visit = NoVisit
    /\ bot = NoBot
    /\ run = NoRun
    /\ typing = NoTyping

\* A store access succeeds (TRUE) or throws (FALSE).
StoreOutcomes == IF storeFailures < MaxStoreFailures THEN BOOLEAN ELSE {TRUE}

fanoutVars == <<tasks, taskIdx, allTasksSucceededOrSkipped, taskBrowsers, taskResult>>

----------------------------------------------------------------------------
(* runMonitorMode up to the loop                                           *)

\* Lines 380-427: build targetMap, leave when nothing is enabled or targeted,
\* else launch the browser of the monitoring session (the launch may throw).
StartMonitor ==
    /\ pc = "start"
    /\ LET tm == buildTargetMap(accounts)
       IN  IF Len(enabledAccounts(accounts)) = 0 \/ Len(tm) = 0
           THEN /\ pc' = "returned"
                /\ UNCHANGED <<monitorBrowser, targetMap>>
           ELSE /\ targetMap' = tm
                /\ \E launched \in BOOLEAN :
                      IF launched
                      THEN pc' = "monitorInit" /\ monitorBrowser' = "open"
                      ELSE pc' = "crashed" /\ UNCHANGED monitorBrowser
    /\ UNCHANGED <<typing, run, bot, accounts, profileStats, csv, tIdx, currentStats, retryTasks,
                   storeFailures, visit>>
    /\ UNCHANGED fanoutVars

\* catch (541) and finally (544): the error is rethrown after the monitoring
\* browser is closed.
Fatal ==
    /\ pc' = "fatal"
    /\ monitorBrowser' = closeMonitorBrowser(monitorBrowser)

\* Lines 427-436: the monitoring session initializes or runMonitorMode returns;
\* then the store is read.  A failed read is answered by writing the header
\* over the file (lines 55-58), and if that write throws too the exception
\* leaves loadProfileStatsFromCsv inside the try block of line 434.
InitMonitorSession ==
    /\ pc = "monitorInit"
    /\ \E env \in InitEnvs, readOk \in StoreOutcomes, resetOk \in BOOLEAN :
          IF ~initializeBotSession(env).ok
          THEN /\ pc' = "returned"
               /\ monitorBrowser' = "closed"
               /\ UNCHANGED <<tIdx, csv, profileStats, storeFailures>>
          ELSE IF readOk
          THEN /\ pc' = "checkTarget"
               /\ tIdx' = 1
               /\ profileStats' = loadProfileStatsFromCsv(csv)
               /\ UNCHANGED <<monitorBrowser, csv, storeFailures>>
          ELSE IF resetOk
          THEN /\ pc' = "checkTarget"
               /\ tIdx' = 1
               /\ csv' = <<>>
               /\ profileStats' = <<>>
               /\ storeFailures' = storeFailures + 1
               /\ UNCHANGED monitorBrowser
          ELSE /\ Fatal
               /\ storeFailures' = storeFailures + 1
               /\ UNCHANGED <<tIdx, csv, profileStats>>
    /\ UNCHANGED <<typing, run, bot, accounts, targetMap, currentStats, retryTasks, visit>>
    /\ UNCHANGED fanoutVars

----------------------------------------------------------------------------
(* One iteration of the for loop over monitoredUsernames                   *)

\* profileStats[t] = currentStats; await updateProfileStatsInCsv(...).  The
\* store's read or write may throw inside updateProfileStatsInCsv, which
\* logs the error and returns.
Commit(t, cur, v) ==
    /\ profileStats' = assignStats(profileStats, t, cur)
    /\ \E writeOk \in StoreOutcomes :
          /\ storeFailures' = IF writeOk THEN storeFailures ELSE storeFailures + 1
          /\ csv' = IF writeOk
                    THEN updateProfileStatsInCsv(csv, t, cur.postCount, cur.followerCount)
                    ELSE csv
          /\ visit' = [v EXCEPT !.writes =
                          Append(@, [row |-> Row(t, cur.postCount, cur.followerCount),
                                     ok |-> writeOk]),
                                !.succeeded = { p \in @ : p[1] # t }]

CheckTarget ==
    /\ pc = "checkTarget"
    /\ \E env \in PageStates :
        LET t == monitoredUsernames(targetMap)[tIdx]
            got == getProfileStats(env)
            cur == Stats(got.postCount, got.followerCount)
            branch == IF got.kind = "stats" THEN classify(profileStats, t, cur)
                      ELSE "none"
            v == [NoVisit EXCEPT !.target = t,
                                 !.retry = (retryTasks[t] # <<>>),
                                 !.hadPrev = hasPrevious(profileStats, t),
                                 !.prev = previousStats(profileStats, t),
                                 !.csvBefore = csv,
                                 !.page = IF env.page = "stats" THEN "stats" ELSE "failed",
                                 !.fetch = got.kind,
                                 !.cur = IF got.kind = "stats" THEN cur ELSE NoStats,
                                 !.branch = branch,
                                 !.cycle = IF tIdx = 1 THEN <<t>>
                                           ELSE Append(visit.cycle, t),
                                 !.succeeded = visit.succeeded]
        IN  CASE got.kind = "throw" ->
                    /\ Fatal
                    /\ visit' = v
                    /\ UNCHANGED <<profileStats, csv, storeFailures, currentStats,
                                   tasks, taskIdx, allTasksSucceededOrSkipped>>
              [] got.kind = "null" ->
                    /\ pc' = "iterEnd"
                    /\ visit' = v
                    /\ UNCHANGED <<monitorBrowser, profileStats, csv, storeFailures,
                                   currentStats, tasks, taskIdx,
                                   allTasksSucceededOrSkipped>>
              [] got.kind = "stats" /\ branch = "newPost" ->
                    /\ currentStats' = cur
                    /\ tasks' = fanoutTasks(targetMap, t)
                    /\ taskIdx' = 1
                    /\ allTasksSucceededOrSkipped' = TRUE
                    /\ pc' = IF Len(tasks') > 0 THEN "launchTask" ELSE "fanoutEnd"
                    /\ visit' = v
                    /\ UNCHANGED <<monitorBrowser, profileStats, csv, storeFailures>>
              [] got.kind = "stats" /\ branch \in {"initialize", "deleted", "followers"} ->
                    /\ currentStats' = cur
                    /\ Commit(t, cur, v)
                    /\ pc' = "iterEnd"
                    /\ UNCHANGED <<monitorBrowser, tasks, taskIdx, allTasksSucceededOrSkipped>>
              [] OTHER ->
                    /\ currentStats' = cur
                    /\ pc' = "iterEnd"
                    /\ visit' = v
                    /\ UNCHANGED <<monitorBrowser, profileStats, csv, storeFailures,
                                   tasks, taskIdx, allTasksSucceededOrSkipped>>
    /\ UNCHANGED <<typing, run, bot, accounts, targetMap, tIdx, taskBrowsers, taskResult, retryTasks>>

----------------------------------------------------------------------------
(* The fan-out: for (const task of tasks) launchBotForTask(...)            *)

\* Lines 489-501: what the loop does with the value launchBotForTask returned.
TaskReturned(account, result, why) ==
    /\ allTasksSucceededOrSkipped' =
          (allTasksSucceededOrSkipped /\ ~taskFailed(result))
    /\ visit' = [visit EXCEPT !.results =
                    Append(@, [account |-> account, result |-> result, why |-> why])]
    /\ taskIdx' = taskIdx + 1
    /\ pc' = IF taskIdx < Len(tasks) THEN "launchTask" ELSE "fanoutEnd"
    /\ taskResult' = "none"

\* launchBotForTask is called; initializeBotSession loads or creates the
\* fingerprint and launches the browser (lines 184-194, before its try
\* block: an exception there has no handler below the monitor loop's catch).
LaunchTask ==
    /\ pc = "launchTask"
    /\ \E launched \in BOOLEAN :
          IF launched
          THEN /\ taskBrowsers' = taskBrowsers \cup {taskIdx}
               /\ pc' = "initTask"
               /\ UNCHANGED monitorBrowser
          ELSE /\ Fatal
               /\ UNCHANGED taskBrowsers
    /\ visit' = [visit EXCEPT !.launched = Append(@, tasks[taskIdx])]
    /\ UNCHANGED <<typing, run, bot, accounts, targetMap, profileStats, csv, tIdx, currentStats, tasks,
                   taskIdx, allTasksSucceededOrSkipped, taskResult, retryTasks,
                   storeFailures>>

\* The try block of initializeBotSession for the task's account: the session
\* is returned, or the catch block closes the browser and null is returned,
\* which launchBotForTask turns into LAUNCH_ERROR.
InitTask ==
    /\ pc = "initTask"
    /\ \E r \in { initializeBotSession(env) : env \in InitEnvs } :
          IF r.ok
          THEN /\ pc' = "runTask"
               /\ UNCHANGED <<taskBrowsers, taskIdx, allTasksSucceededOrSkipped,
                              taskResult, visit>>
          ELSE /\ taskBrowsers' = closeAfterInitFailure(taskBrowsers, taskIdx)
               /\ TaskReturned(tasks[taskIdx], "LAUNCH_ERROR", r.why)
    /\ UNCHANGED <<typing, run, bot, accounts, monitorBrowser, targetMap, profileStats, csv, tIdx,
                   currentStats, tasks, retryTasks, storeFailures>>

\* bot.runCommentTask inside the try/catch of launchBotForTask.
RunTask ==
    /\ pc = "runTask"
    /\ taskResult' \in { launchBotForTask(env) : env \in TaskEnvs }
    /\ pc' = "closeTask"
    /\ UNCHANGED <<typing, run, bot, accounts, monitorBrowser, targetMap, profileStats, csv, tIdx,
                   currentStats, tasks, taskIdx, allTasksSucceededOrSkipped,
                   taskBrowsers, retryTasks, storeFailures, visit>>

\* The finally block of launchBotForTask, then the return to the loop.
CloseTask ==
    /\ pc = "closeTask"
    /\ taskBrowsers' = closeBrowser(taskBrowsers, taskIdx)
    /\ TaskReturned(tasks[taskIdx], taskResult, "none")
    /\ UNCHANGED <<typing, run, bot, accounts, monitorBrowser, targetMap, profileStats, csv, tIdx,
                   currentStats, tasks, retryTasks, storeFailures>>

\* The accounts whose task returned SUCCESS in this fan-out for target t.
SucceededNow(t) ==
    { <<t, visit.results[i].account>> :
         i \in { j \in 1..Len(visit.results) : visit.results[j].result = "SUCCESS" } }

\* Lines 503-513: commit the fetched snapshot or keep the old one.
FanoutEnd ==
    /\ pc = "fanoutEnd"
    /\ LET t == visit.target
       IN  IF commitAfterFanout(allTasksSucceededOrSkipped)
           THEN /\ Commit(t, currentStats, visit)
                /\ retryTasks' = [retryTasks EXCEPT ![t] = <<>>]
           ELSE /\ retryTasks' = [retryTasks EXCEPT ![t] = tasks]
                /\ visit' = [visit EXCEPT !.succeeded = @ \cup SucceededNow(t)]
                /\ UNCHANGED <<profileStats, csv, storeFailures>>
    /\ pc' = "iterEnd"
    /\ UNCHANGED <<typing, run, bot, accounts, monitorBrowser, targetMap, tIdx, currentStats>>
    /\ UNCHANGED fanoutVars

\* The locals of a loop iteration go out of scope at its end.
IterationLocalsDropped ==
    /\ currentStats' = NoStats
    /\ tasks' = <<>>
    /\ taskIdx' = 0
    /\ allTasksSucceededOrSkipped' = TRUE
    /\ taskResult' = "none"
    /\ visit' = [NoVisit EXCEPT !.cycle = visit.cycle, !.succeeded = visit.succeeded]

\* The for loop moves to the next monitored target.
NextTarget ==
    /\ pc = "iterEnd"
    /\ tIdx < Len(targetMap)
    /\ tIdx' = tIdx + 1
    /\ pc' = "checkTarget"
    /\ IterationLocalsDropped
    /\ UNCHANGED <<typing, run, bot, accounts, monitorBrowser, targetMap, profileStats, csv,
                   taskBrowsers, retryTasks, storeFailures>>

\* Lines 534-540: the pass is complete; after the delay while (true) starts
\* the next cycle.
NextCycle ==
    /\ pc = "iterEnd"
    /\ tIdx = Len(targetMap)
    /\ tIdx' = 1
    /\ pc' = "checkTarget"
    /\ IterationLocalsDropped
    /\ UNCHANGED <<typing, run, bot, accounts, monitorBrowser, targetMap, profileStats, csv,
                   taskBrowsers, retryTasks, storeFailures>>

Next ==
    \/ StartMonitor
    \/ InitMonitorSession
    \/ CheckTarget
    \/ LaunchTask
    \/ InitTask
    \/ RunTask
    \/ CloseTask
    \/ FanoutEnd
    \/ NextTarget
    \/ NextCycle

Spec == Init /\ [][Next]_vars

\* The event loop runs every continuation that is ready: each await of the
\* monitor loop (page calls, timed delays) settles.
FairSpec == Spec /\ WF_vars(Next)

----------------------------------------------------------------------------
(* One session of launchBotForTask, step by step: initializeBotSession,     *)
(* runCommentTask from await to await, and the page's response callback     *)
(* running between the steps.                                               *)

\* What the page's 'response' event can deliver.
Responses ==
    [url : VideoUrls, contentType : {"video/mp4", "image/jpeg", "none"},
     fbcdn : BOOLEAN, instagramOrIg : BOOLEAN]

\* Lines 104-109 of bot.ts: the filter of the callback.
matchesVideo(response) ==
    /\ response.contentType = "video/mp4"
    /\ response.fbcdn
    /\ response.instagramOrIg

\* A callback without the test of line 99: the last match is kept.
onResponseKeepingLast(capturing, captured, response) ==
    IF ~capturing THEN captured
    ELSE IF matchesVideo(response) THEN response.url
    ELSE captured

\* Lines 95-114 of bot.ts: the callback, as the new value of capturedVideoUrl.
onResponse(capturing, captured, response) ==
    IF ~capturing THEN captured
    ELSE IF captured # NoUrl THEN captured
    ELSE IF matchesVideo(response) THEN response.url
    ELSE captured

\* Matching responses the callback returned from without recording them:
\* while the window was closed, or after a first URL was captured.
droppedMatch(capturing, captured, response) ==
    IF ~matchesVideo(response) THEN {}
    ELSE IF ~capturing THEN {"windowClosed"}
    ELSE IF captured # NoUrl /\ captured # response.url THEN {"alreadyCaptured"}
    ELSE {}

\* A finally block that leaves the flag as it is.
finallyKeepsFlag(capturing) == capturing

\* Line 428: this.isCapturingVideo = false
finallyClearsFlag(capturing) == FALSE

\* The steps of runCommentTask's try block land in its catch block when an
\* awaited call rejects.
ToCatch == [bot EXCEPT !.pc = "catch"]

\* return r from inside the try block.
ToReturn(r) == [bot EXCEPT !.result = r, !.pc = "finally"]

\* A diagnostic screenshot inside the try block, then return r.
ScreenshotThenReturn(r) == IF bot.env.screenshotOk THEN ToReturn(r) ELSE ToCatch

mainVars == <<accounts, pc, monitorBrowser, targetMap, profileStats, csv, tIdx,
              currentStats, tasks, taskIdx, allTasksSucceededOrSkipped,
              taskBrowsers, taskResult, retryTasks, storeFailures, visit, run,
              typing>>

\* main.ts 262 and 174-253: fingerprint and browser launch, then the try
\* block around context creation and bot.init.
StartSession ==
    /\ bot.pc = "new"
    /\ \E launched \in BOOLEAN :
          IF ~launched
          THEN bot' = [bot EXCEPT !.pc = "launchThrew"]
          ELSE \E env \in InitEnvs :
                  LET r == initializeBotSession(env)
                  IN  bot' = [bot EXCEPT
                                !.initEnv = env, !.logins = r.logins, !.why = r.why,
                                !.path = r.path, !.cookies = r.ck,
                                !.pc = IF r.ok THEN "ready" ELSE "closed",
                                !.browser = IF r.ok THEN "open" ELSE "closed",
                                !.delivered = IF r.ok THEN "none" ELSE "LAUNCH_ERROR"]
    /\ UNCHANGED mainVars

\* The 'response' event fires between two steps of the session.
OnResponse ==
    /\ bot.browser = "open"
    /\ \E response \in Responses :
          bot' = [bot EXCEPT
                    !.capturedVideoUrl =
                        onResponse(bot.isCapturingVideo, bot.capturedVideoUrl, response),
                    !.dropped = @ \cup droppedMatch(bot.isCapturingVideo,
                                                    bot.capturedVideoUrl, response)]
    /\ UNCHANGED mainVars

\* bot.ts 262-268: reset the capture state, navigate to the profile.
BeginTask ==
    /\ bot.pc = "ready"
    /\ \E env \in TaskEnvs :
          bot' = [bot EXCEPT !.env = env,
                             !.capturedVideoUrl = NoUrl,
                             !.isCapturingVideo = FALSE,
                             !.pc = IF env.gotoOk THEN "profile" ELSE "catch"]
    /\ UNCHANGED mainVars

\* bot.ts 270-300: private profile, candidate posts, capture window opened.
LookAtProfile ==
    /\ bot.pc = "profile"
    /\ bot' = IF isPrivate(bot.env) THEN ToReturn("SKIPPED")
              ELSE IF ~hasCandidatePost(bot.env)
              THEN [ScreenshotThenReturn("SKIPPED") EXCEPT
                        !.warning = noPostWarning(bot.env)]
              ELSE [bot EXCEPT !.isCapturingVideo = TRUE, !.pc = "opening"]
    /\ UNCHANGED mainVars

\* bot.ts 302-307: click the latest post and wait for its dialog.
OpenPost ==
    /\ bot.pc = "opening"
    /\ bot' = IF bot.env.openOk
              THEN [bot EXCEPT !.did = @ \cup {"opened"}, !.pc = "extract"]
              ELSE ToCatch
    /\ UNCHANGED mainVars

\* bot.ts 309-368: caption and media; errors are logged and swallowed.
Extract ==
    /\ bot.pc = "extract"
    /\ bot' = [bot EXCEPT
                 !.did = @ \cup {"caption", "media"},
                 !.postImageUrl = extractMedia(bot.env, bot.capturedVideoUrl).postImageUrl,
                 !.postVideoUrl = extractMedia(bot.env, bot.capturedVideoUrl).postVideoUrl,
                 !.pc = "generate"]
    /\ UNCHANGED mainVars

\* bot.ts 370-378: the awaited generator call.
Generate ==
    /\ bot.pc = "generate"
    /\ LET c == generatedComment(bot.env)
       IN  bot' = IF c = "none"
                  THEN [ToCatch EXCEPT !.did = @ \cup {"ai"}]
                  ELSE [bot EXCEPT !.did = @ \cup {"ai"}, !.comment = c,
                                   !.pc = "commentArea"]
    /\ UNCHANGED mainVars

\* bot.ts 380-390: look for the comment textarea.
FindCommentArea ==
    /\ bot.pc = "commentArea"
    /\ bot' = IF hasCommentArea(bot.env)
              THEN [bot EXCEPT !.pc = "typing"]
              ELSE ScreenshotThenReturn("SKIPPED")
    /\ UNCHANGED mainVars

\* bot.ts 392-394: naturalTyping of the comment.
TypeComment ==
    /\ bot.pc = "typing"
    /\ bot' = IF bot.env.typeOk
              THEN [bot EXCEPT !.did = @ \cup {"typed"}, !.pc = "postButton"]
              ELSE [ToCatch EXCEPT !.did = @ \cup {"typed"}]
    /\ UNCHANGED mainVars

\* bot.ts 396-407: look for an enabled Post button.
FindPostButton ==
    /\ bot.pc = "postButton"
    /\ bot' = IF postButtonUsable(bot.env)
              THEN [bot EXCEPT !.pc = "submit"]
              ELSE ScreenshotThenReturn("FAILED")
    /\ UNCHANGED mainVars

\* bot.ts 409-411: click Post, wait.
Submit ==
    /\ bot.pc = "submit"
    /\ bot' = IF bot.env.clickOk
              THEN [bot EXCEPT !.did = @ \cup {"clicked", "submitted"}, !.pc = "verify"]
              ELSE [ToCatch EXCEPT !.did = @ \cup {"clicked"}]
    /\ UNCHANGED mainVars

\* bot.ts 413-422: look for the comment in the dialog, log, return.
Verify ==
    /\ bot.pc = "verify"
    /\ bot' = IF bot.env.verify = "throws" THEN ToCatch
              ELSE [ToReturn(resultAfterVerification(bot.env.verify = "found"))
                       EXCEPT !.did = @ \cup {"logged"}]
    /\ UNCHANGED mainVars

\* bot.ts 423-427: the catch block; its screenshot is awaited unguarded.
Catch ==
    /\ bot.pc = "catch"
    /\ bot' = [bot EXCEPT !.did = @ \cup {"caught"},
                          !.result = IF bot.env.catchScreenshotOk THEN "FAILED" ELSE "THROW",
                          !.pc = "finally"]
    /\ UNCHANGED mainVars

\* bot.ts 428: the finally block; runCommentTask returns or throws.
Finally ==
    /\ bot.pc = "finally"
    /\ bot' = [bot EXCEPT !.isCapturingVideo = finallyClearsFlag(@),
                          !.pc = "returned"]
    /\ UNCHANGED mainVars

\* main.ts 270-279: the result, or FAILED from the catch block; the finally
\* block closes the browser.
CloseSession ==
    /\ bot.pc = "returned"
    /\ bot' = [bot EXCEPT !.delivered = IF bot.result = "THROW" THEN "FAILED" ELSE bot.result,
                          !.browser = "closed",
                          !.pc = "closed"]
    /\ UNCHANGED mainVars

\* launchBotForTask called from runTestCommentMode (main.ts 321) for the
\* first target of an enabled account.
SessionInit ==
    /\ accounts = << Account(TRUE, "a1", <<"t1">>) >>
    /\ csv = <<>>
    /\ pc = "start"
    /\ monitorBrowser = "none"
    /\ targetMap = <<>>
    /\ profileStats = <<>>
    /\ tIdx = 0
    /\ currentStats = NoStats
    /\ tasks = <<>>
    /\ taskIdx = 0
    /\ allTasksSucceededOrSkipped = TRUE
    /\ taskBrowsers = {}
    /\ taskResult = "none"
    /\ retryTasks = [t \in TargetNames |-> <<>>]
    /\ storeFailures = 0
    /\ visit = NoVisit
    /\ bot = NoBot
    /\ run = NoRun
    /\ typing = NoTyping

SessionNext ==
    \/ StartSession
    \/ OnResponse
    \/ BeginTask
    \/ LookAtProfile
    \/ OpenPost
    \/ Extract
    \/ Generate
    \/ FindCommentArea
    \/ TypeComment
    \/ FindPostButton
    \/ Submit
    \/ Verify
    \/ Catch
    \/ Finally
    \/ CloseSession

SessionSpec == SessionInit /\ [][SessionNext]_vars

\* A task is running on the session: runCommentTask was entered and has not
\* left its finally block.
TaskRunning ==
    bot.pc \in {"profile", "opening", "extract", "generate", "commentArea",
                "typing", "postButton", "submit", "verify", "catch", "finally"}

\* The step model and the function runCommentTask agree on what a task does.
StepsAgreeWithRunCommentTask ==
    (bot.pc = "closed" /\ bot.browser = "closed" /\ bot.why = "none" /\ bot.delivered # "LAUNCH_ERROR") =>
        /\ bot.result = runCommentTask(bot.env).result
        /\ bot.delivered = launchBotForTask(bot.env)
        /\ ("submitted" \in bot.did) = runCommentTask(bot.env).submitted
        /\ ("logged" \in bot.did) = runCommentTask(bot.env).logged

----------------------------------------------------------------------------
(* Properties                                                              *)

Returned(i) == visit.results[i].result

\* Every task of the fan-out of this iteration returned SUCCESS or SKIPPED.
AllSucceededOrSkipped ==
    /\ Len(visit.results) = Len(tasks)
    /\ \A i \in 1..Len(visit.results) : Returned(i) \in {"SUCCESS", "SKIPPED"}

\* The row the store holds for target t, as a later startup would load it.
StoredStats(lines, t) ==
    IF t \in DOMAIN loadProfileStatsFromCsv(lines)
    THEN loadProfileStatsFromCsv(lines)[t] ELSE NoStats

\* The iteration committed snapshot s of target t: the in-memory map holds
\* it, exactly one store update was issued, for (t, s), and the store holds
\* it unless that update threw inside updateProfileStatsInCsv.
CommittedInIteration(t, s) ==
    /\ hasPrevious(profileStats, t) /\ profileStats[t] = s
    /\ Len(visit.writes) = 1
    /\ visit.writes[1].row = Row(t, s.postCount, s.followerCount)
    /\ (visit.writes[1].ok => StoredStats(csv, t) = s)
    /\ (~visit.writes[1].ok => csv = visit.csvBefore)

\* The iteration left target t as it was: same in-memory snapshot, no store
\* update issued, store untouched.
RetainedInIteration(t) ==
    /\ previousStats(profileStats, t) = visit.prev
    /\ hasPrevious(profileStats, t) = visit.hadPrev
    /\ visit.writes = <<>>
    /\ csv = visit.csvBefore

\* The fetch of this iteration showed more posts than the snapshot held.
DetectedNewPost ==
    /\ visit.fetch = "stats" /\ visit.hadPrev
    /\ visit.cur.postCount > visit.prev.postCount

\* C1: when the fetched postCount exceeds the persisted one, the iteration
\* ends with the fetched snapshot committed (in memory, store update issued)
\* exactly when every task of the fan-out returned SUCCESS or SKIPPED; when a
\* task returned FAILED or LAUNCH_ERROR, or its launch threw and ended the
\* loop, the prior snapshot is still in memory and in the store.
C1_CommitIffAllSucceededOrSkipped ==
    DetectedNewPost =>
        /\ (pc = "iterEnd" /\ AllSucceededOrSkipped)
              => CommittedInIteration(visit.target, visit.cur)
        /\ (pc = "iterEnd" /\ ~AllSucceededOrSkipped)
              => RetainedInIteration(visit.target)
        /\ (pc = "fatal") => RetainedInIteration(visit.target)
        /\ (pc = "iterEnd")
              => (profileStats[visit.target] = visit.cur <=> AllSucceededOrSkipped)

C1_Witness ==
    /\ pc = "iterEnd" /\ DetectedNewPost
    /\ Len(visit.results) = 2
    /\ Returned(1) = "SUCCESS" /\ Returned(2) = "LAUNCH_ERROR"
    /\ profileStats[visit.target] = visit.prev

\* C2: a target without a prior snapshot gets the fetched snapshot committed
\* as its baseline in the same iteration, and no task is launched, whatever
\* postCount was fetched.
C2_FirstFetchIsBaseline ==
    (visit.fetch = "stats" /\ ~visit.hadPrev) =>
        /\ pc \in {"iterEnd"}
        /\ CommittedInIteration(visit.target, visit.cur)
        /\ visit.launched = <<>> /\ visit.results = <<>>
        /\ taskBrowsers = {}

C2_Witness ==
    /\ pc = "iterEnd" /\ visit.fetch = "stats" /\ ~visit.hadPrev
    /\ visit.cur.postCount > 0
    /\ profileStats[visit.target] = visit.cur
    /\ visit.launched = <<>>

\* C3: while a failed fan-out of a target is not yet followed by one whose
\* tasks all succeeded or were skipped, every iteration that fetches a
\* postCount above the snapshot starts the fan-out over the same subscribed
\* accounts again, and a fan-out that runs to its end has launched them all;
\* only a fan-out in which every task succeeded or was skipped ends this.
C3_RetryUntilAllSucceed ==
    [][ /\ (/\ pc = "checkTarget"
            /\ visit'.retry
            /\ visit'.fetch = "stats"
            /\ visit'.cur.postCount > visit'.prev.postCount)
           => /\ pc' = "launchTask" /\ taskIdx' = 1
              /\ tasks' = retryTasks[visit'.target]
              /\ tasks' = targetMapGet(targetMap, visit'.target)
        /\ (pc' = "fanoutEnd" /\ visit'.retry)
           => visit'.launched = retryTasks[visit'.target]
        /\ \A t \in TargetNames :
              (retryTasks[t] # <<>> /\ retryTasks'[t] = <<>>)
                 => (pc = "fanoutEnd" /\ visit.target = t /\ AllSucceededOrSkipped)
      ]_vars

C3_Witness ==
    /\ pc = "iterEnd" /\ visit.retry /\ DetectedNewPost
    /\ Len(visit.launched) = 2
    /\ visit.launched = retryTasks[visit.target]
    /\ ~AllSucceededOrSkipped

\* The accounts subscribed to target t: enabled and listing t.
Subscribers(t) ==
    {accounts[i].username : i \in
        {j \in 1..Len(accounts) :
            /\ accounts[j].enabled
            /\ \E k \in 1..Len(accounts[j].targets) : accounts[j].targets[k] = t}}

\* Position of an account in config.accounts.
ConfigIndex(u) == CHOOSE i \in 1..Len(accounts) : accounts[i].username = u

\* C4 (as claimed): a fan-out that ran to its end launched exactly one task
\* per subscribed account (an account listing the target twice is one
\* subscriber), one after another in configuration order.
C4_OneTaskPerSubscriber ==
    (pc = "fanoutEnd") =>
        /\ {visit.launched[i] : i \in 1..Len(visit.launched)} = Subscribers(visit.target)
        /\ Len(visit.launched) = Cardinality(Subscribers(visit.target))
        /\ \A i, j \in 1..Len(visit.launched) :
              i < j => ConfigIndex(visit.launched[i]) < ConfigIndex(visit.launched[j])
        /\ Len(visit.results) = Len(visit.launched)

\* The fetch of this iteration differs from the snapshot without showing
\* more posts.
DetectedOtherChange ==
    /\ visit.fetch = "stats" /\ visit.hadPrev
    /\ visit.cur # visit.prev
    /\ visit.cur.postCount <= visit.prev.postCount

\* C5: a fetched snapshot that differs from the persisted one without a
\* higher postCount is committed in the same iteration and no task is launched.
C5_CommitWithoutTask ==
    DetectedOtherChange =>
        /\ pc = "iterEnd"
        /\ CommittedInIteration(visit.target, visit.cur)
        /\ visit.launched = <<>> /\ visit.results = <<>>
        /\ taskBrowsers = {}

C5_Witness ==
    /\ pc = "iterEnd" /\ DetectedOtherChange
    /\ visit.cur.postCount = visit.prev.postCount
    /\ profileStats[visit.target] = visit.cur

\* C6: an iteration whose fetch equals the persisted snapshot accesses the
\* store not at all, leaves the in-memory map as it was and launches no task.
C6_NoChangeNoWrite ==
    [][ (/\ pc = "checkTarget"
         /\ visit'.fetch = "stats" /\ visit'.hadPrev
         /\ visit'.cur = visit'.prev)
        => /\ pc' = "iterEnd"
           /\ profileStats' = profileStats
           /\ csv' = csv
           /\ storeFailures' = storeFailures
           /\ visit'.writes = <<>>
           /\ visit'.launched = <<>>
           /\ taskBrowsers' = {}
      ]_vars

C6_Witness ==
    /\ pc = "iterEnd" /\ visit.fetch = "stats" /\ visit.hadPrev
    /\ visit.cur = visit.prev
    /\ visit.writes = <<>>

\* C7 (as claimed): whatever makes the fetch fail, the iteration ends with
\* no result, the target untouched and no task launched, and the loop goes on.
C7_FailedFetchIsSkipped ==
    (visit.page \notin {"none", "stats"}) =>
        /\ pc = "iterEnd"
        /\ visit.fetch = "null"
        /\ RetainedInIteration(visit.target)
        /\ visit.launched = <<>>

\* C8: at most one task session has an open browser, and none is open when
\* launchBotForTask is entered for the next task, when the fan-out is over
\* or when the loop has ended; the monitoring browser is open beside it.
C8_OneTaskSessionAtATime ==
    /\ Cardinality(taskBrowsers) <= 1
    /\ (pc \notin {"initTask", "runTask", "closeTask"}) => taskBrowsers = {}
    /\ (pc \in {"initTask", "runTask", "closeTask"})
          => (taskBrowsers = {taskIdx} /\ monitorBrowser = "open")

C8_Witness ==
    /\ pc = "initTask" /\ taskIdx = 2
    /\ taskBrowsers = {2}
    /\ Returned(1) = "LAUNCH_ERROR"

\* C9 (as claimed): a task whose session cannot be started does not end the
\* monitor loop: the loop never dies with a launched task that has no result.
C9_SessionFailureNotFatal ==
    ~(pc = "fatal" /\ Len(visit.launched) > Len(visit.results))

\* C10: a login failure that leaves init closes that session's browser, is
\* returned as LAUNCH_ERROR and counted as a failed task, the loop goes on
\* with the monitoring browser open, and the fan-out ends without a commit.
C10_LoginFailureOnlyEndsSession ==
    [][ /\ (/\ pc = "initTask"
            /\ Len(visit'.results) > Len(visit.results)
            /\ visit'.results[Len(visit'.results)].why = "login")
           => /\ visit'.results[Len(visit'.results)].result = "LAUNCH_ERROR"
              /\ visit'.results[Len(visit'.results)].account = tasks[taskIdx]
              /\ taskBrowsers' = {}
              /\ ~allTasksSucceededOrSkipped'
              /\ pc' \in {"launchTask", "fanoutEnd"}
              /\ monitorBrowser' = "open"
              /\ profileStats' = profileStats /\ csv' = csv
        /\ (/\ pc = "fanoutEnd"
            /\ \E i \in 1..Len(visit.results) : visit.results[i].why = "login")
           => /\ pc' = "iterEnd"
              /\ profileStats' = profileStats /\ csv' = csv
              /\ visit'.writes = <<>>
      ]_vars

C10_Witness ==
    /\ pc = "iterEnd"
    /\ Len(visit.results) = 2
    /\ visit.results[1].why = "login"
    /\ Returned(2) = "SUCCESS"
    /\ RetainedInIteration(visit.target)
    /\ monitorBrowser = "open"


----------------------------------------------------------------------------
(* Properties of one session                                                *)

\* runCommentTask has left its try block.
TaskOver == bot.pc \in {"finally", "returned", "closed"}

\* What a task does to the post or the log.
PostSteps == {"opened", "caption", "media", "ai", "typed", "clicked", "submitted", "logged"}

\* The result a task that landed in the catch block ends with.
CaughtResult == IF bot.env.catchScreenshotOk THEN "FAILED" ELSE "THROW"

\* C11 (as claimed): within one session initialization a login that ends
\* with the username field never appearing and no authenticated marker is
\* not attempted a second time.
C11_FatalLoginNotRetried ==
    (bot.pc # "new" /\ bot.initEnv.login1 = "noUsernameInput") => bot.logins <= 1

\* C12: a task on a profile that shows the private marker returns SKIPPED,
\* and nothing is opened, extracted, generated, typed, submitted or logged.
C12_PrivateIsSkipped ==
    (bot.env.gotoOk /\ bot.env.isPrivate) =>
        /\ bot.pc \in {"profile", "finally", "returned", "closed"}
        /\ bot.did = {}
        /\ ~bot.isCapturingVideo
        /\ TaskOver => bot.result = "SKIPPED"
        /\ (bot.pc = "closed") => bot.delivered = "SKIPPED"

C12_Witness ==
    /\ bot.pc = "closed" /\ bot.env.isPrivate
    /\ bot.result = "SKIPPED" /\ bot.delivered = "SKIPPED"
    /\ bot.did = {}

\* C13: the capturing flag is false whenever no task is running on the
\* session, whatever way the task ended, and it is true only in a task that
\* found a candidate post, from the opening of that post on.
C13_CaptureWindowClosedAfterTask ==
    /\ ~TaskRunning => ~bot.isCapturingVideo
    /\ (bot.pc \in {"returned", "closed"}) => ~bot.isCapturingVideo
    /\ bot.isCapturingVideo =>
          /\ bot.pc \in {"opening", "extract", "generate", "commentArea", "typing",
                         "postButton", "submit", "verify", "catch", "finally"}
          /\ bot.env.gotoOk /\ ~bot.env.isPrivate /\ bot.env.postCount > 0

C13_Witness ==
    /\ bot.pc = "returned" /\ bot.result = "THROW"
    /\ "opened" \in bot.did
    /\ ~bot.isCapturingVideo

\* C14: a step taken while the capturing flag is false, and a step taken
\* after a URL was captured, leave capturedVideoUrl as it is; the value
\* changes only from undefined to the URL of a matching response.
C14_FirstMatchOnly ==
    [][ /\ (~bot.isCapturingVideo \/ bot.capturedVideoUrl # NoUrl)
              => bot'.capturedVideoUrl = bot.capturedVideoUrl
        /\ (bot'.capturedVideoUrl # bot.capturedVideoUrl)
              => (bot'.capturedVideoUrl \in VideoUrls /\ bot'.pc = bot.pc)
      ]_vars

C14_Witness ==
    /\ bot.capturedVideoUrl = "v1" /\ bot.postVideoUrl = "v1"
    /\ bot.dropped = {"windowClosed", "alreadyCaptured"}
    /\ bot.pc = "closed"


\* The results of the fan-out so far hold a FAILED or a LAUNCH_ERROR.
SomeTaskFailed ==
    \E i \in 1..Len(visit.results) : Returned(i) \in {"FAILED", "LAUNCH_ERROR"}

\* C15: whatever is raised inside runCommentTask, launchBotForTask returns to
\* the fan-out loop with SUCCESS, SKIPPED or FAILED and the loop goes on; the
\* results the loop sees are SUCCESS, SKIPPED, FAILED or LAUNCH_ERROR, and a
\* fan-out with a FAILED or a LAUNCH_ERROR among them ends without a commit.
C15_TaskErrorsBecomeFailed ==
    [][ /\ (pc = "runTask")
              => /\ pc' = "closeTask"
                 /\ taskResult' \in {"SUCCESS", "SKIPPED", "FAILED"}
        /\ (pc = "closeTask")
              => /\ pc' \in {"launchTask", "fanoutEnd"}
                 /\ visit'.results[Len(visit'.results)].result = taskResult
                 /\ monitorBrowser' = "open"
        /\ \A i \in 1..Len(visit'.results) :
              visit'.results[i].result \in {"SUCCESS", "SKIPPED", "FAILED", "LAUNCH_ERROR"}
        /\ (pc = "fanoutEnd")
              => /\ pc' = "iterEnd"
                 /\ SomeTaskFailed
                      => (profileStats' = profileStats /\ csv' = csv /\ visit'.writes = <<>>)
                 /\ ~SomeTaskFailed
                      => (profileStats'[visit.target] = currentStats /\ Len(visit'.writes) = 1)
      ]_vars

C15_Witness ==
    /\ pc = "iterEnd" /\ DetectedNewPost
    /\ Len(visit.results) = 2
    /\ Returned(1) = "FAILED" /\ Returned(2) = "SUCCESS"
    /\ RetainedInIteration(visit.target)

\* C16: a task that clicked Post and then looked for its comment logs the
\* interaction and returns SUCCESS, whether the comment was found or not.
C16_VerificationNeverChangesOutcome ==
    ("submitted" \in bot.did /\ bot.env.verify \in {"found", "notFound"} /\ TaskOver) =>
        /\ bot.result = "SUCCESS"
        /\ "logged" \in bot.did
        /\ "caught" \notin bot.did
        /\ (bot.pc = "closed") => bot.delivered = "SUCCESS"

C16_Witness ==
    /\ bot.pc = "closed" /\ bot.env.verify = "notFound"
    /\ "submitted" \in bot.did /\ "logged" \in bot.did
    /\ bot.delivered = "SUCCESS"

\* C17: a task that typed its comment and finds the Post button absent or
\* disabled never clicks it and logs nothing; it returns FAILED (from the
\* try block, or from the catch block when the diagnostic screenshot
\* throws), and the caller gets FAILED.
C17_NoSubmitControlFails ==
    (bot.env.typeOk /\ bot.env.postButton \in {"absent", "disabled"}) =>
        /\ "clicked" \notin bot.did /\ "submitted" \notin bot.did
        /\ "logged" \notin bot.did
        /\ TaskOver =>
              /\ "typed" \in bot.did
              /\ bot.result = IF bot.env.screenshotOk THEN "FAILED" ELSE CaughtResult
        /\ (bot.pc = "closed") => bot.delivered = "FAILED"

C17_Witness ==
    /\ bot.pc = "closed" /\ bot.env.postButton = "disabled"
    /\ "typed" \in bot.did /\ "clicked" \notin bot.did
    /\ bot.result = "FAILED" /\ bot.delivered = "FAILED"

\* C18: when the generator call rejects, no comment exists, nothing is
\* typed, clicked or logged, the task ends in its catch block and the caller
\* gets FAILED.
C18_GeneratorFailureFails ==
    (~bot.env.aiOk /\ "ai" \in bot.did) =>
        /\ bot.comment = "none"
        /\ bot.did \cap {"typed", "clicked", "submitted", "logged"} = {}
        /\ bot.pc \in {"catch", "finally", "returned", "closed"}
        /\ TaskOver => (bot.result = CaughtResult /\ "caught" \in bot.did)
        /\ (bot.pc = "closed") => bot.delivered = "FAILED"

C18_Witness ==
    /\ bot.pc = "closed" /\ ~bot.env.aiOk /\ "ai" \in bot.did
    /\ bot.result = "FAILED" /\ bot.delivered = "FAILED"
    /\ "typed" \notin bot.did

\* C19: a task on a profile without a non-pinned post opens no post and
\* calls no generator; it returns SKIPPED once its diagnostic screenshot is
\* taken (FAILED when that throws), and whether pinned posts exist decides
\* the warning only.
C19_NoCandidateIsSkipped ==
    (bot.env.gotoOk /\ ~bot.env.isPrivate /\ bot.env.postCount = 0) =>
        /\ bot.did \cap PostSteps = {}
        /\ ~bot.isCapturingVideo
        /\ TaskOver =>
              /\ bot.result = IF bot.env.screenshotOk THEN "SKIPPED" ELSE CaughtResult
              /\ bot.warning = IF bot.env.allPostLinks > 0 THEN "allPinned" ELSE "noPosts"
        /\ (bot.pc = "closed" /\ bot.env.screenshotOk) => bot.delivered = "SKIPPED"

C19_Witness ==
    /\ bot.pc = "closed"
    /\ bot.env.postCount = 0 /\ bot.env.allPostLinks = 1
    /\ bot.warning = "allPinned"
    /\ bot.delivered = "SKIPPED" /\ bot.did = {}

\* C20: a task that opened a post without a comment area has by then asked
\* the generator for a comment; it types, clicks and logs nothing and
\* returns SKIPPED once its diagnostic screenshot is taken (FAILED when that
\* throws).
C20_NoCommentAreaIsSkipped ==
    (bot.env.openOk /\ bot.env.aiOk /\ ~bot.env.textarea) =>
        /\ bot.did \cap {"typed", "clicked", "submitted", "logged"} = {}
        /\ (bot.pc = "commentArea") => ("ai" \in bot.did /\ bot.comment = "generated")
        /\ TaskOver =>
              /\ "ai" \in bot.did /\ "opened" \in bot.did
              /\ bot.result = IF bot.env.screenshotOk THEN "SKIPPED" ELSE CaughtResult
        /\ (bot.pc = "closed" /\ bot.env.screenshotOk) => bot.delivered = "SKIPPED"

C20_Witness ==
    /\ bot.pc = "closed" /\ ~bot.env.textarea
    /\ "ai" \in bot.did /\ "typed" \notin bot.did
    /\ bot.delivered = "SKIPPED"


\* C21: the generator is called with at most one media URL: a post with a
\* video marker passes no image URL, and a post without one passes no video
\* URL, whatever the response callback captured.
C21_OneMediaUrl ==
    ("ai" \in bot.did) =>
        /\ bot.postImageUrl = NoUrl \/ bot.postVideoUrl = NoUrl
        /\ bot.env.video => bot.postImageUrl = NoUrl
        /\ ~bot.env.video => bot.postVideoUrl = NoUrl
        /\ bot.postVideoUrl \in {NoUrl, bot.capturedVideoUrl}

C21_Witness ==
    /\ "ai" \in bot.did /\ ~bot.env.video
    /\ bot.capturedVideoUrl = "v1"
    /\ bot.postImageUrl = "img" /\ bot.postVideoUrl = NoUrl


\* init returned true for an account that had no cookie file.
InitializedWithoutCookieFile ==
    /\ bot.pc # "new" /\ bot.why = "none" /\ bot.path # "none"
    /\ ~bot.initEnv.cookieFile

\* C28 (as claimed): when init completes for an account without persisted
\* session-state, the session-state is on disk when init returns.
C28_SessionStatePersisted ==
    InitializedWithoutCookieFile => bot.cookies.file

\* C28 (amended): when init completes for an account without persisted
\* session-state, a write of the session-state was attempted before init
\* returned; after a login the write succeeded, and on an already-logged-in
\* return the file exists exactly if the last write succeeded.
C28_SessionStateWriteAttempted ==
    InitializedWithoutCookieFile =>
        /\ bot.cookies.saves >= 1
        /\ (bot.path = "loggedIn") => bot.cookies.file
        /\ (bot.path = "alreadyLoggedIn")
              => (bot.cookies.file = storageStateOk(bot.initEnv, bot.cookies.saves))

C28_Witness ==
    /\ InitializedWithoutCookieFile /\ bot.pc = "ready"
    /\ bot.path = "alreadyLoggedIn" /\ bot.logins = 0
    /\ bot.cookies.saves = 1 /\ ~bot.cookies.file


----------------------------------------------------------------------------
(* Properties of the monitor loop, continued                                *)

\* runMonitorMode has ended: by return, or by an exception.
Stopped == pc \in {"returned", "crashed", "fatal"}

\* C23: an exception raised in the monitor cycle outside the try/catch of a
\* task (in getProfileStats, in the store's startup read, in the launch of a
\* task's browser) ends runMonitorMode, and the monitoring browser is closed
\* when the exception leaves it; nothing runs after that.
C23_CycleErrorIsFatalAfterCleanup ==
    /\ [](/\ (visit.fetch = "throw") => pc = "fatal"
          /\ (pc = "fatal") => (monitorBrowser = "closed" /\ taskBrowsers = {}))
    /\ [][pc # "fatal"]_vars

C23_Witness ==
    /\ pc = "fatal" /\ visit.fetch = "throw"
    /\ monitorBrowser = "closed"
    /\ tIdx = 2

\* The targets listed by enabled accounts.
EnabledTargets ==
    UNION { {accounts[i].targets[k] : k \in 1..Len(accounts[i].targets)} :
                i \in {j \in 1..Len(accounts) : accounts[j].enabled} }

EnabledUsernames ==
    {accounts[i].username : i \in {j \in 1..Len(accounts) : accounts[j].enabled}}

\* The pass over monitoredUsernames is complete.
CycleComplete ==
    /\ pc = "iterEnd" /\ tIdx = Len(targetMap)
    /\ visit.cycle = monitoredUsernames(targetMap)

\* C24: the monitored targets are the targets of the enabled accounts, each
\* once; the targets fetched in a cycle are the first tIdx of them, in
\* order, so a complete cycle has fetched each exactly once; tasks are
\* launched for enabled accounts only; and unless runMonitorMode ends, a
\* complete cycle is reached again and again.
C24_EveryCycleFetchesEachTargetOnce ==
    /\ [](/\ (targetMap # <<>>) =>
                /\ {targetMap[i].target : i \in 1..Len(targetMap)} = EnabledTargets
                /\ \A i, j \in 1..Len(targetMap) :
                      targetMap[i].target = targetMap[j].target => i = j
          /\ (pc \in {"launchTask", "initTask", "runTask", "closeTask", "fanoutEnd", "iterEnd"})
                => visit.cycle = SubSeq(monitoredUsernames(targetMap), 1, tIdx)
          /\ \A i \in 1..Len(visit.launched) : visit.launched[i] \in EnabledUsernames
          /\ \A i \in 1..Len(visit.cycle) : visit.cycle[i] \in EnabledTargets)
    /\ []<>(Stopped \/ CycleComplete)

C24_Witness ==
    /\ CycleComplete
    /\ visit.cycle = <<"t1", "t2">>
    /\ hasPrevious(profileStats, "t1") /\ hasPrevious(profileStats, "t2")


\* The rows of the store that start with "u,".
RowsOf(lines, u) == SelectSeq(lines, LAMBDA r : r.username = u)

StoreKeys(lines) == {lines[i].username : i \in 1..Len(lines)}

\* The step is a commit step of the monitor loop (lines 463-464, 507-508,
\* 518-519, 524-525): it issues the iteration's store update.
CommitStep == visit.writes = <<>> /\ visit'.writes # <<>>

\* The step belongs to a task execution (launchBotForTask).
TaskStep == pc \in {"launchTask", "initTask", "runTask", "closeTask"}

\* C25: the store never holds two rows for one target; a commit for target
\* t sets t's in-memory snapshot to the committed counts and, when the store
\* update completes, leaves exactly one row for t, carrying those counts
\* (an update that throws leaves the file as it was); the rows and the
\* in-memory snapshot of every other target are the same before and after.
C25_UpdateByKeyOrAppend ==
    /\ [](\A i, j \in 1..Len(csv) : csv[i].username = csv[j].username => i = j)
    /\ [][CommitStep =>
            LET w == visit'.writes[1]
                t == w.row.username
            IN  /\ t = visit'.target
                /\ profileStats'[t] = Stats(w.row.post_count, w.row.follower_count)
                /\ w.ok => RowsOf(csv', t) = << w.row >>
                /\ ~w.ok => csv' = csv
                /\ \A u \in (StoreKeys(csv) \cup StoreKeys(csv')) \ {t} :
                      RowsOf(csv', u) = RowsOf(csv, u)
                /\ DOMAIN profileStats' = DOMAIN profileStats \cup {t}
                /\ \A u \in DOMAIN profileStats \ {t} :
                      profileStats'[u] = profileStats[u]]_vars

\* A commit replaced the first target's row in place; the second target's
\* row is the one the store held before.
C25_Witness ==
    /\ visit.writes # <<>> /\ visit.writes[1].ok
    /\ visit.target = "t1"
    /\ Len(visit.csvBefore) = 2 /\ Len(csv) = 2
    /\ csv[1] = visit.writes[1].row /\ csv[1] # visit.csvBefore[1]
    /\ csv[2] = visit.csvBefore[2] /\ csv[2].username = "t2"


\* A snapshot is created by the commit of a first successful fetch, changed
\* by commit steps only, and left alone by every step of a task.
SnapshotLifecycle ==
    /\ CommitStep \/ pc = "monitorInit" \/ UNCHANGED <<profileStats, csv>>
    /\ TaskStep => UNCHANGED <<profileStats, csv>>
    /\ \A t \in DOMAIN profileStats' \ DOMAIN profileStats :
          \/ pc = "monitorInit" /\ t \in StoreKeys(csv)
          \/ /\ CommitStep /\ visit'.target = t
             /\ visit'.fetch = "stats" /\ ~visit'.hadPrev
    /\ DOMAIN profileStats \subseteq DOMAIN profileStats'

\* C26 (as claimed): a snapshot is created on the first successful fetch,
\* changed only by the commit step, untouched by tasks, and never deleted:
\* a target that has a snapshot, in memory or in the store, has one after
\* every step.
C26_SnapshotNeverDeleted ==
    [][\/ UNCHANGED <<profileStats, csv>>
       \/ SnapshotLifecycle /\ StoreKeys(csv) \subseteq StoreKeys(csv')]_vars

\* C26 (amended): as claimed, except that the startup read of a store that
\* cannot be read resets the store to its header: from then on the monitor
\* has no snapshot at all, in memory or in the store.  After startup no row
\* of the store is ever removed.
C26_SnapshotDeletedOnlyByStartupReset ==
    [][\/ UNCHANGED <<profileStats, csv>>
       \/ /\ SnapshotLifecycle
          /\ \/ StoreKeys(csv) \subseteq StoreKeys(csv')
             \/ pc = "monitorInit" /\ csv' = <<>> /\ profileStats' = <<>>]_vars

\* A fan-out ran tasks and failed: the target's snapshot is still the one it
\* had, and the other target's snapshot is still there.
C26_Witness ==
    /\ pc = "iterEnd" /\ visit.target = "t2"
    /\ visit.results # <<>> /\ visit.writes = <<>>
    /\ visit.hadPrev /\ profileStats["t2"] = visit.prev
    /\ hasPrevious(profileStats, "t1")
    /\ StoreKeys(csv) = {"t1", "t2"}

----------------------------------------------------------------------------
(* The process in test-comment and check-accounts mode (main.ts 550-603),   *)
(* started again and again over the same data/ directory.                   *)

\* Process starts followed.
MaxRuns == 2

\* Values generateFingerprint can return.
Fingerprints == {"f1", "f2"}

\* process.argv[3]: no name, the name of a configured account, another name.
Argv3 == {"none", "a1", "a2", "a3", "zz"}

\* The configurations explored: an enabled first account with two targets
\* beside a disabled one and one without targets; a disabled first account;
\* nothing enabled; a first enabled account without targets.
ModeConfigs ==
    { << Account(TRUE, "a1", <<"t1", "t2">>), Account(FALSE, "a2", <<"t1">>),
         Account(TRUE, "a3", <<>>) >>,
      << Account(FALSE, "a1", <<"t1">>), Account(TRUE, "a2", <<"t2", "t1">>),
         Account(TRUE, "a3", <<"t1">>) >>,
      << Account(FALSE, "a1", <<"t1">>) >>,
      << Account(TRUE, "a3", <<>>), Account(TRUE, "a1", <<"t1">>) >> }

LogEntry(account, target) == [account |-> account, target |-> target]

\* interaction_log.csv as found by the first start: missing, just created,
\* or holding an entry of an earlier run.
InitialLogs ==
    { [exists |-> FALSE, lines |-> <<>>],
      [exists |-> TRUE, lines |-> << LogHeader >>],
      [exists |-> TRUE, lines |-> << LogHeader, LogEntry("a1", "t1") >>] }

\* data/fingerprints as found by the first start.
InitialFingerprints ==
    { [a \in AccountNames |-> NoFingerprint],
      [a \in AccountNames |-> IF a = "a1" THEN "f1" ELSE NoFingerprint] }

\* A startup that writes the header whether or not the file exists.
createLogAlways(log) == [exists |-> TRUE, lines |-> << LogHeader >>]

\* main.ts 569-573: the header is written only when the file is missing.
createLogIfMissing(log) ==
    IF log.exists THEN log ELSE [exists |-> TRUE, lines |-> << LogHeader >>]

\* A logInteraction that returns without appending.
logInteractionWithoutAppend(log, account, target, appendOk) == log

\* bot.ts 58-72: fs.appendFileSync inside try/catch; a failed append is
\* logged and the file stays as it was.
logInteraction(log, account, target, appendOk) ==
    IF appendOk
    THEN [exists |-> TRUE, lines |-> Append(log.lines, LogEntry(account, target))]
    ELSE log

\* A fingerprint block that generates and writes a record on every call.
regenerateFingerprint(disk, gen, ioOk) ==
    IF ioOk THEN [fp |-> gen, disk |-> gen, generated |-> TRUE, throws |-> FALSE]
    ELSE [fp |-> NoFingerprint, disk |-> disk, generated |-> FALSE, throws |-> TRUE]

\* main.ts 184-191: the record on disk is read and parsed when the file
\* exists, else a fingerprint is generated and written.  ioOk: the read and
\* JSON.parse, respectively the write, did not throw.
loadOrCreateFingerprint(disk, gen, ioOk) ==
    IF ~ioOk
    THEN [fp |-> NoFingerprint, disk |-> disk, generated |-> FALSE, throws |-> TRUE]
    ELSE IF disk # NoFingerprint
    THEN [fp |-> disk, disk |-> disk, generated |-> FALSE, throws |-> FALSE]
    ELSE [fp |-> gen, disk |-> gen, generated |-> TRUE, throws |-> FALSE]

\* initializeBotSession as a whole (main.ts 174-253): the fingerprint block
\* and chromium.launch run before the try block, so what they throw leaves
\* the function; inside the try block a failure closes the browser and
\* null is returned.
startSession(disk, gen, ioOk, launched, env) ==
    LET lf == loadOrCreateFingerprint(disk, gen, ioOk)
        kind == IF lf.throws \/ ~launched THEN "throw"
                ELSE IF initializeBotSession(env).ok THEN "session" ELSE "null"
    IN  [kind |-> kind, disk |-> lf.disk, fp |-> lf.fp, generated |-> lf.generated,
         got |-> ~lf.throws]

\* Array.prototype.find by username: the first match, 0 when there is none.
findAccount(accs, name) ==
    LET hits == {i \in 1..Len(accs) : accs[i].username = name}
    IN  IF hits = {} THEN 0 ELSE CHOOSE i \in hits : \A j \in hits : i <= j

\* config.accounts.find(acc => acc.enabled)
firstEnabled(accs) ==
    LET hits == {i \in 1..Len(accs) : accs[i].enabled}
    IN  IF hits = {} THEN 0 ELSE CHOOSE i \in hits : \A j \in hits : i <= j

\* A choice that never looks at the enabled flag of a named account.
chooseNamedEvenIfDisabled(accs, name) ==
    LET i == IF name # "none" THEN findAccount(accs, name) ELSE firstEnabled(accs)
    IN  IF i = 0 THEN 0
        ELSE IF Len(accs[i].targets) = 0 THEN 0
        ELSE i

\* main.ts 285-313: the account of the test, 0 when the mode returns with an
\* error message instead.
chooseTestAccount(accs, name) ==
    LET i == IF name # "none" THEN findAccount(accs, name) ELSE firstEnabled(accs)
    IN  IF i = 0 THEN 0
        ELSE IF ~accs[i].enabled THEN 0
        ELSE IF Len(accs[i].targets) = 0 THEN 0
        ELSE i

modeFrame == <<accounts, pc, monitorBrowser, targetMap, profileStats, csv, tIdx,
               currentStats, tasks, taskIdx, allTasksSucceededOrSkipped,
               taskBrowsers, taskResult, retryTasks, storeFailures, visit, bot,
               typing>>

\* The process has ended or was never started.
ProcessOver == run.pc \in {"off", "exited", "crashed", "killed"}

\* The keys the terminal may deliver.
Keys == {"i", "ctrl-c", "other"}

\* A handler in which the key i switches the pause signal on and off.
onKeypressToggles(shouldPause, key) ==
    IF key = "i" THEN ~shouldPause ELSE shouldPause

\* main.ts 558-561: the key i sets pauseState.shouldPause; no key clears it.
onKeypress(shouldPause, key) ==
    IF key = "i" THEN TRUE ELSE shouldPause

\* HumanBehavior reads the pause signal at its suspension points and leaves
\* it as it is.
checkPause(shouldPause) == shouldPause

\* run after initializeBotSession was called for account u with outcome r.
SessionStarted(u, r) ==
    [run EXCEPT !.fingerprints = [@ EXCEPT ![u] = r.disk],
                !.fingerprint = r.fp,
                !.inits = IF r.got
                          THEN Append(@, [account |-> u, fp |-> r.fp,
                                          generated |-> r.generated])
                          ELSE @,
                !.overlap = @ \/ run.browser = "open",
                !.shouldPause = checkPause(@),
                !.browser = CASE r.kind = "session" -> "open"
                              [] r.kind = "null" -> "closed"
                              [] OTHER -> "none"]

\* main.ts 550-598: the process starts, creates the interaction log when it
\* is missing, exits when the API key is not set, and enters the mode named
\* by process.argv[2].
StartProcess ==
    /\ ProcessOver /\ run.runs < MaxRuns
    /\ \E mode \in {"test-comment", "check-accounts"}, name \in Argv3,
          keyOk \in BOOLEAN :
          run' = [NoRun EXCEPT
                    !.runs = run.runs + 1,
                    !.fingerprints = run.fingerprints,
                    !.log = createLogIfMissing(run.log),
                    !.mode = IF keyOk THEN mode ELSE "none",
                    !.argv3 = IF keyOk /\ mode = "test-comment" THEN name ELSE "none",
                    !.pc = IF ~keyOk THEN "exited"
                           ELSE IF mode = "test-comment" THEN "chooseTest"
                           ELSE "checkStart"]
    /\ UNCHANGED modeFrame

\* main.ts 554-562: the keypress handler runs between two steps of the
\* process.  ctrl+c ends the process, and with it the browser it launched; the
\* key i sets the pause signal and touches nothing else.
KeyPress ==
    /\ ~ProcessOver
    /\ \E key \in Keys :
          IF key = "ctrl-c"
          THEN run' = [run EXCEPT !.pc = "killed",
                                  !.browser = IF @ = "open" THEN "closed" ELSE @]
          ELSE run' = [run EXCEPT
                         !.shouldPause = onKeypress(@, key),
                         !.pausedAt = IF ~run.shouldPause /\ onKeypress(run.shouldPause, key)
                                      THEN run.pc ELSE @]
    /\ UNCHANGED modeFrame

\* runTestCommentMode, lines 285-319: the account is chosen or the mode
\* returns.
ChooseTest ==
    /\ run.pc = "chooseTest"
    /\ LET c == chooseTestAccount(accounts, run.argv3)
       IN  run' = [run EXCEPT !.chosen = c,
                              !.pc = IF c = 0 THEN "exited" ELSE "testLaunch"]
    /\ UNCHANGED modeFrame

\* Line 321 and launchBotForTask up to line 265: the session of the chosen
\* account is started for its first target; without a session LAUNCH_ERROR
\* is returned and the mode is complete.
TestLaunch ==
    /\ run.pc = "testLaunch"
    /\ \E gen \in Fingerprints, ioOk \in BOOLEAN, launched \in BOOLEAN :
        \E r \in { startSession(run.fingerprints[accounts[run.chosen].username],
                                gen, ioOk, launched, env) : env \in InitEnvs } :
          LET a == accounts[run.chosen]
          IN  run' = [SessionStarted(a.username, r) EXCEPT
                        !.launched = Append(@, LogEntry(a.username, a.targets[1])),
                        !.result = IF r.kind = "null" THEN "LAUNCH_ERROR" ELSE "none",
                        !.pc = CASE r.kind = "session" -> "testTask"
                                 [] r.kind = "null" -> "exited"
                                 [] OTHER -> "crashed"]
    /\ UNCHANGED modeFrame

\* launchBotForTask, lines 267-273: runCommentTask inside try/catch; the task
\* logs the interaction when it has submitted and verified.
TestTask ==
    /\ run.pc = "testTask"
    /\ \E env \in TaskEnvs, appendOk \in BOOLEAN :
          LET a == accounts[run.chosen]
          IN  run' = [run EXCEPT
                        !.tasksRun = @ + 1,
                        !.shouldPause = checkPause(@),
                        !.result = launchBotForTask(env),
                        !.log = IF runCommentTask(env).logged
                                THEN logInteraction(@, a.username, a.targets[1], appendOk)
                                ELSE @,
                        !.appended = IF ~runCommentTask(env).logged THEN "none"
                                     ELSE IF appendOk THEN "ok" ELSE "failed",
                        !.pc = "testClose"]
    /\ UNCHANGED modeFrame

\* launchBotForTask's finally block (274-277), then line 323.
TestClose ==
    /\ run.pc = "testClose"
    /\ run' = [run EXCEPT !.browser = "closed", !.pc = "exited"]
    /\ UNCHANGED modeFrame

\* runCheckAccountsMode, lines 342-349.
StartCheck ==
    /\ run.pc = "checkStart"
    /\ run' = IF Len(enabledAccounts(accounts)) = 0
              THEN [run EXCEPT !.pc = "exited"]
              ELSE [run EXCEPT !.pc = "checkNext", !.idx = 1]
    /\ UNCHANGED modeFrame

\* Lines 351-359: the next enabled account's session is started, headed;
\* null is answered by a warning and the loop goes on.
CheckAccount ==
    /\ run.pc = "checkNext"
    /\ run.idx <= Len(enabledAccounts(accounts))
    /\ \E gen \in Fingerprints, ioOk \in BOOLEAN, launched \in BOOLEAN :
        \E r \in { startSession(run.fingerprints[enabledAccounts(accounts)[run.idx].username],
                                gen, ioOk, launched, env) : env \in InitEnvs } :
          LET a == enabledAccounts(accounts)[run.idx]
          IN  run' = [SessionStarted(a.username, r) EXCEPT
                        !.checked = Append(@, a.username),
                        !.skipped = IF r.kind = "null" THEN Append(@, a.username) ELSE @,
                        !.idx = IF r.kind = "null" THEN @ + 1 ELSE @,
                        !.pc = CASE r.kind = "session" -> "inspect"
                                 [] r.kind = "null" -> "checkNext"
                                 [] OTHER -> "crashed"]
    /\ UNCHANGED modeFrame

\* waitForEnter resolves on the return key (326-337); the browser is closed
\* (364-365) and the loop goes on.
PressEnter ==
    /\ run.pc = "inspect"
    /\ run' = [run EXCEPT !.entered = Append(@, enabledAccounts(accounts)[run.idx].username),
                          !.browser = "closed",
                          !.idx = @ + 1,
                          !.pc = "checkNext"]
    /\ UNCHANGED modeFrame

\* Line 374: every enabled account was handled.
CheckDone ==
    /\ run.pc = "checkNext"
    /\ run.idx > Len(enabledAccounts(accounts))
    /\ run' = [run EXCEPT !.pc = "exited"]
    /\ UNCHANGED modeFrame

ModesInit ==
    /\ accounts \in ModeConfigs
    /\ csv = <<>>
    /\ pc = "start"
    /\ monitorBrowser = "none"
    /\ targetMap = <<>>
    /\ profileStats = <<>>
    /\ tIdx = 0
    /\ currentStats = NoStats
    /\ tasks = <<>>
    /\ taskIdx = 0
    /\ allTasksSucceededOrSkipped = TRUE
    /\ taskBrowsers = {}
    /\ taskResult = "none"
    /\ retryTasks = [t \in TargetNames |-> <<>>]
    /\ storeFailures = 0
    /\ visit = NoVisit
    /\ bot = NoBot
    /\ typing = NoTyping
    /\ run \in {[NoRun EXCEPT !.fingerprints = f, !.log = l] :
                    f \in InitialFingerprints, l \in InitialLogs}

ModesNext ==
    \/ StartProcess
    \/ KeyPress
    \/ ChooseTest
    \/ TestLaunch
    \/ TestTask
    \/ TestClose
    \/ StartCheck
    \/ CheckAccount
    \/ PressEnter
    \/ CheckDone

ModesSpec == ModesInit /\ [][ModesNext]_vars

----------------------------------------------------------------------------
(* HumanBehavior.naturalTyping, called at bot.ts 216, 224 and 393: the      *)
(* text is typed one character at a time; before a character an incorrect  *)
(* one may be typed, and is then deleted.                                   *)

\* Longest text typed.
MaxLen == 3

\* The characters of the texts, and a key next to them on the keyboard.
Alphabet == {"a", "b"}
KeyboardChars == Alphabet \cup {"x"}

\* The texts of at most n characters.
RECURSIVE TextsUpTo(_)
TextsUpTo(n) ==
    IF n = 0 THEN { <<>> }
    ELSE TextsUpTo(n - 1) \cup
         { Append(t, c) : t \in { u \in TextsUpTo(n - 1) : Len(u) = n - 1 }, c \in Alphabet }

Texts == TextsUpTo(MaxLen)

\* typoChance in percent: never, the 0.07 of bot.ts 219, always.
TypoChances == {0, 7, 100}

\* Math.random() < typoChance: what the draw can decide.
typoDrawn(typoChance) ==
    IF typoChance = 0 THEN {FALSE}
    ELSE IF typoChance = 100 THEN {TRUE}
    ELSE BOOLEAN

\* The incorrect characters that may be typed in place of c.
incorrectChars(c) == KeyboardChars \ {c}

\* The key typed into the field.
typeKey(field, c) == Append(field, c)

\* A Backspace that does not reach the field.
pressBackspaceLost(field) == field

\* Backspace deletes the last character of the field.
pressBackspace(field) ==
    IF field = <<>> THEN field ELSE SubSeq(field, 1, Len(field) - 1)

typingFrame == <<accounts, pc, monitorBrowser, targetMap, profileStats, csv, tIdx,
                 currentStats, tasks, taskIdx, allTasksSucceededOrSkipped,
                 taskBrowsers, taskResult, retryTasks, storeFailures, visit, bot,
                 run>>

\* The loop is over when every character was typed.
nextPhase(text, pos) == IF pos > Len(text) THEN "done" ELSE "draw"

\* The draw before the character at pos: a typo is made or not.
DrawTypo ==
    /\ typing.phase = "draw"
    /\ \E typo \in typoDrawn(typing.typoChance) :
          typing' = [typing EXCEPT !.phase = IF typo THEN "typo" ELSE "char"]
    /\ UNCHANGED typingFrame

\* The incorrect character is typed.
TypeIncorrect ==
    /\ typing.phase = "typo"
    /\ \E c \in incorrectChars(typing.text[typing.pos]) :
          typing' = [typing EXCEPT !.field = typeKey(@, c),
                                   !.typos = @ + 1,
                                   !.phase = "delete"]
    /\ UNCHANGED typingFrame

\* After a pause the incorrect character is deleted.
DeleteIncorrect ==
    /\ typing.phase = "delete"
    /\ typing' = [typing EXCEPT !.field = pressBackspace(@),
                                !.corrections = @ + 1,
                                !.phase = "char"]
    /\ UNCHANGED typingFrame

\* The character of the text is typed and the loop moves on.
TypeCorrect ==
    /\ typing.phase = "char"
    /\ typing' = [typing EXCEPT !.field = typeKey(@, typing.text[typing.pos]),
                                !.pos = @ + 1,
                                !.phase = nextPhase(typing.text, typing.pos + 1)]
    /\ UNCHANGED typingFrame

\* naturalTyping is called on an empty field with a text and a typoChance.
TypingInit ==
    /\ accounts = << Account(TRUE, "a1", <<"t1">>) >>
    /\ csv = <<>>
    /\ pc = "start"
    /\ monitorBrowser = "none"
    /\ targetMap = <<>>
    /\ profileStats = <<>>
    /\ tIdx = 0
    /\ currentStats = NoStats
    /\ tasks = <<>>
    /\ taskIdx = 0
    /\ allTasksSucceededOrSkipped = TRUE
    /\ taskBrowsers = {}
    /\ taskResult = "none"
    /\ retryTasks = [t \in TargetNames |-> <<>>]
    /\ storeFailures = 0
    /\ visit = NoVisit
    /\ bot = NoBot
    /\ run = NoRun
    /\ typing \in { [NoTyping EXCEPT !.text = t, !.typoChance = c, !.pos = 1,
                                     !.phase = nextPhase(t, 1)] :
                       t \in Texts, c \in TypoChances }

TypingNext ==
    \/ DrawTypo
    \/ TypeIncorrect
    \/ DeleteIncorrect
    \/ TypeCorrect

TypingSpec == TypingInit /\ [][TypingNext]_vars

----------------------------------------------------------------------------
(* Properties of the modes and of the files under data/                     *)

\* The step completed the fingerprint block of initializeBotSession.
FingerprintReturned == Len(run'.inits) = Len(run.inits) + 1

\* C22: a fingerprint record on disk is never changed; a session started for
\* an account that has a record uses that record and generates nothing; a
\* fingerprint is generated, and then written, only for an account without a
\* record; nothing but the fingerprint block touches the records.
C22_FingerprintLoadOrCreate ==
    [][/\ \A a \in AccountNames :
             run.fingerprints[a] # NoFingerprint
                => run'.fingerprints[a] = run.fingerprints[a]
       /\ FingerprintReturned =>
             LET e == run'.inits[Len(run'.inits)]
                 old == run.fingerprints[e.account]
             IN  /\ e.fp = run'.fingerprints[e.account]
                 /\ e.fp # NoFingerprint
                 /\ e.generated <=> old = NoFingerprint
                 /\ ~e.generated => e.fp = old
       /\ (run'.fingerprints # run.fingerprints) => FingerprintReturned]_vars

\* The second process start loaded the fingerprint the first one generated.
C22_Witness ==
    /\ run.runs = 2 /\ run.browser = "open"
    /\ run.inits # <<>>
    /\ run.inits[Len(run.inits)] = [account |-> "a1", fp |-> "f2", generated |-> FALSE]
    /\ run.fingerprints["a1"] = "f2"


\* C27: every step leaves an existing interaction log in place with its
\* former lines as a prefix of its lines, and a process start leaves an
\* existing log exactly as it found it.
C27_LogAppendOnly ==
    [][/\ run.log.exists =>
             /\ run'.log.exists
             /\ Len(run.log.lines) <= Len(run'.log.lines)
             /\ SubSeq(run'.log.lines, 1, Len(run.log.lines)) = run.log.lines
       /\ (run.log.exists /\ run'.runs = run.runs + 1) => run'.log = run.log]_vars

\* Two process starts over a log that held an entry: each added one.
C27_Witness ==
    /\ run.runs = 2 /\ run.pc = "exited"
    /\ Len(run.log.lines) = 4
    /\ run.log.lines[2] = LogEntry("a1", "t1")


\* The account test-comment mode is to use, as a set of indices: the first
\* account of the given name, or the first enabled one when no name is given.
TestCandidates ==
    IF run.argv3 # "none"
    THEN {i \in 1..Len(accounts) :
            /\ accounts[i].username = run.argv3
            /\ \A j \in 1..(i - 1) : accounts[j].username # run.argv3}
    ELSE {i \in 1..Len(accounts) :
            /\ accounts[i].enabled
            /\ \A j \in 1..(i - 1) : ~accounts[j].enabled}

\* The candidate can be used: it is enabled and has a target.
TestUsable ==
    {i \in TestCandidates : accounts[i].enabled /\ Len(accounts[i].targets) > 0}

\* C29: test-comment mode never launches more than one task; once it has
\* ended it has launched exactly one, for the first target of the named (or
\* first enabled) account, or none at all, with no session started, when the
\* name is unknown, the account is disabled, nothing is enabled or the
\* account has no targets.
C29_TestModeLaunchesOneTask ==
    (run.mode = "test-comment") =>
        /\ Len(run.launched) <= 1 /\ run.tasksRun <= 1
        /\ Len(run.inits) <= Len(run.launched)
        /\ \A k \in 1..Len(run.launched) :
              \E i \in TestUsable :
                 run.launched[k] = LogEntry(accounts[i].username, accounts[i].targets[1])
        /\ (run.pc \in {"exited", "crashed"}) =>
              IF TestUsable = {}
              THEN run.launched = <<>> /\ run.browser = "none" /\ run.tasksRun = 0
              ELSE Len(run.launched) = 1

\* No name given and the first account disabled: the task ran for the first
\* enabled account on its first target.
C29_Witness ==
    /\ run.mode = "test-comment" /\ run.pc = "exited" /\ run.argv3 = "none"
    /\ ~accounts[1].enabled
    /\ run.launched = << LogEntry("a2", "t2") >>
    /\ run.tasksRun = 1 /\ run.browser = "closed"


EnabledNames ==
    [i \in 1..Len(enabledAccounts(accounts)) |-> enabledAccounts(accounts)[i].username]

\* C30: check-accounts mode starts the sessions of the enabled accounts in
\* configuration order, never while another session's browser is open, and
\* runs no task; a session stays open until ENTER; and the mode ends only
\* when every enabled account was handled, each either inspected or
\* skipped.
C30_CheckAccountsHandlesEveryAccount ==
    (run.mode = "check-accounts") =>
        /\ Len(run.checked) <= Len(EnabledNames)
        /\ run.checked = SubSeq(EnabledNames, 1, Len(run.checked))
        /\ ~run.overlap
        /\ run.launched = <<>> /\ run.tasksRun = 0
        /\ (run.browser = "open") => run.pc = "inspect"
        /\ (run.pc \in {"exited", "crashed"}) =>
              /\ run.checked = EnabledNames
              /\ \A i \in 1..Len(EnabledNames) :
                    \/ \E k \in 1..Len(run.entered) : run.entered[k] = EnabledNames[i]
                    \/ \E k \in 1..Len(run.skipped) : run.skipped[k] = EnabledNames[i]

----------------------------------------------------------------------------
(* The snapshot in memory and its row in the store                        *)

\* C38: after every commit the in-memory snapshot of the target equals the
\* target's row in the persisted store, also when the store write of that
\* commit failed.
C38_MemoryEqualsStoreAfterCommit ==
    (pc = "iterEnd" /\ visit.writes # <<>>) =>
        StoredStats(csv, visit.target) = profileStats[visit.target]

----------------------------------------------------------------------------
(* The fan-out after a task that could not be launched                     *)

\* C33: a fan-out that has ended, in whatever way, has launched a task for
\* every account subscribed to the target, whatever the earlier tasks of
\* the fan-out returned.
C33_FanoutReachesEveryAccount ==
    (visit.branch = "newPost" /\ pc \in {"iterEnd", "fatal"}) =>
        visit.launched = targetMapGet(targetMap, visit.target)

----------------------------------------------------------------------------
(* A task that fails after its comment was submitted                       *)

\* C34: a task whose click on the Post button went through does not return
\* FAILED, neither from runCommentTask nor from launchBotForTask.
C34_FailedOnlyBeforeSubmit ==
    ("submitted" \in bot.did /\ TaskOver) =>
        /\ bot.result # "FAILED"
        /\ (bot.pc = "closed") => bot.delivered # "FAILED"

----------------------------------------------------------------------------
(* One task per initialized session                                        *)

\* The session's task has not ended: the session was returned by
\* initializeBotSession and launchBotForTask has not reached its finally.
SessionInUse == TaskRunning \/ bot.pc \in {"ready", "returned"}

\* C37: a comment task runs only on a session whose init completed, and
\* then the browser is open; a session is handed to a task only once, when
\* it is created, and ends with that one task's result; when
\* launchBotForTask is over the browser is closed, whether the task returned
\* or threw; and a session whose init failed is closed with LAUNCH_ERROR and
\* has run no step of a task.
C37_OneTaskPerInitializedSession ==
    /\ [](/\ (SessionInUse \/ bot.did # {})
                => (bot.why = "none" /\ bot.path # "none")
          /\ SessionInUse => bot.browser = "open"
          /\ (bot.pc = "closed") => bot.browser = "closed"
          /\ (bot.pc = "closed" /\ bot.why = "none")
                => /\ bot.delivered \in {"SUCCESS", "SKIPPED", "FAILED"}
                   /\ bot.result \in {"SUCCESS", "SKIPPED", "FAILED", "THROW"}
          /\ (bot.why # "none")
                => /\ bot.pc = "closed" /\ bot.browser = "closed"
                   /\ bot.did = {} /\ bot.result = "none"
                   /\ bot.delivered = "LAUNCH_ERROR"
          /\ (bot.pc = "launchThrew") => (bot.browser = "none" /\ bot.did = {}))
    /\ [][(bot'.pc = "ready") => (bot.pc \in {"new", "ready"})]_vars

\* A task threw out of runCommentTask on an initialized session, and the
\* browser was closed.
C37_Witness ==
    /\ bot.pc = "closed" /\ bot.browser = "closed"
    /\ bot.why = "none" /\ bot.path = "alreadyLoggedIn"
    /\ bot.result = "THROW" /\ bot.delivered = "FAILED"

----------------------------------------------------------------------------
(* Interaction-log entries and task results                                *)

\* The number of rows the step added to the interaction log.
EntriesAdded == Len(run'.log.lines) - Len(run.log.lines)

\* C36 (as claimed): a task adds exactly one interaction-log entry when it
\* returns SUCCESS and none when it returns SKIPPED or FAILED.
C36_OneEntryPerSuccess ==
    [][(run.pc = "testTask")
          => EntriesAdded = (IF run'.result = "SUCCESS" THEN 1 ELSE 0)]_vars

\* C36 (amended): a task calls logInteraction once when it returns SUCCESS
\* and not at all when it returns SKIPPED or FAILED; the call adds one row,
\* for the task's account and target, unless the append fails, and then it
\* adds none; no other step of the process adds a row.
C36_OneLogAttemptPerSuccess ==
    [][ /\ (run.pc = "testTask")
              => /\ (run'.result # "SUCCESS")
                       => (run'.appended = "none" /\ EntriesAdded = 0)
                 /\ (run'.result = "SUCCESS")
                       => /\ run'.appended \in {"ok", "failed"}
                          /\ EntriesAdded = (IF run'.appended = "ok" THEN 1 ELSE 0)
                 /\ (EntriesAdded = 1)
                       => run'.log.lines[Len(run'.log.lines)]
                             = LogEntry(accounts[run.chosen].username,
                                        accounts[run.chosen].targets[1])
        /\ (run.pc # "testTask" /\ run.log.exists) => EntriesAdded = 0
      ]_vars

\* A task returned SUCCESS while its append failed: the log is as the
\* process found it.
C36_Witness ==
    /\ run.pc = "exited" /\ run.result = "SUCCESS" /\ run.appended = "failed"
    /\ run.tasksRun = 1 /\ run.runs = 1
    /\ run.log = [exists |-> TRUE, lines |-> << LogHeader >>]

----------------------------------------------------------------------------
(* The pause signal                                                         *)

\* C31: within one process the pause signal, once set, stays set through
\* every step of the modes; and the step that sets it changes nothing else:
\* the session in flight keeps its browser, its position and its result.
C31_PauseSignalNeverCleared ==
    [][ /\ (run.shouldPause /\ run'.runs = run.runs) => run'.shouldPause
        /\ (~run.shouldPause /\ run'.shouldPause)
              => run' = [run EXCEPT !.shouldPause = TRUE, !.pausedAt = run.pc]
      ]_vars

\* The signal was set while the task's session was open and its task was
\* about to run: the session is still open and the task is still due.
C31_Witness ==
    /\ run.shouldPause /\ run.pausedAt = "testTask"
    /\ run.pc = "testTask" /\ run.browser = "open"
    /\ run.tasksRun = 0 /\ run.result = "none"

----------------------------------------------------------------------------
(* Accounts that succeeded before the fan-out is retried                   *)

\* The fan-out of this iteration is under way or at its end.
InFanout == pc \in {"launchTask", "initTask", "runTask", "closeTask", "fanoutEnd"}

\* C35 (as claimed): while an increase of a target is pending, an account
\* whose task returned SUCCESS for it in an earlier cycle is not launched
\* again for that target.
C35_SucceededAccountNotAskedAgain ==
    InFanout =>
        \A i \in 1..Len(visit.launched) :
            <<visit.target, visit.launched[i]>> \notin visit.succeeded

\* C35 (amended): a fan-out runs each task of the target's list once, in
\* order, and a fan-out that is retried and reaches its end has again
\* launched every task of the list and has a result for each, the accounts
\* whose task returned SUCCESS in an earlier cycle included.
C35_RetryRunsWholeFanoutAgain ==
    /\ InFanout =>
          /\ tasks = targetMapGet(targetMap, visit.target)
          /\ Len(visit.launched) <= Len(tasks)
          /\ visit.launched = SubSeq(tasks, 1, Len(visit.launched))
          /\ Len(visit.results) <= Len(visit.launched)
          /\ \A i \in 1..Len(visit.results) : visit.results[i].account = tasks[i]
    /\ (pc = "fanoutEnd")
          => /\ visit.launched = targetMapGet(targetMap, visit.target)
             /\ Len(visit.results) = Len(visit.launched)
             /\ \A p \in visit.succeeded :
                   (p[1] = visit.target)
                      => \E i \in 1..Len(visit.launched) : visit.launched[i] = p[2]

\* a1 and a2 follow t1; a1 succeeded and a2 failed in an earlier cycle, and
\* in the retry a1 was launched again and returned SUCCESS a second time.
C35_Witness ==
    /\ pc = "fanoutEnd" /\ visit.retry /\ visit.target = "t1"
    /\ <<"t1", "a1">> \in visit.succeeded
    /\ <<"t1", "a2">> \notin visit.succeeded
    /\ Len(visit.results) = 2
    /\ visit.results[1].account = "a1" /\ Returned(1) = "SUCCESS"
    /\ visit.results[2].account = "a2"

----------------------------------------------------------------------------
(* What naturalTyping leaves in the field                                   *)

\* The characters of the text typed so far.
TypedSoFar == SubSeq(typing.text, 1, typing.pos - 1)

\* C32: for every text and every typoChance the field holds the text when
\* naturalTyping is over; on the way it holds the characters typed so far,
\* followed by an incorrect character only between its typing and its
\* deletion, which comes before the correct character of that position;
\* with typoChance 0 no incorrect character is typed and with typoChance 1
\* exactly one before every character.
C32_TypingCommitsTheText ==
    (typing.phase # "idle") =>
        /\ (typing.phase = "done") => typing.field = typing.text
        /\ (typing.phase \in {"draw", "typo", "char", "done"})
              => (typing.field = TypedSoFar /\ typing.corrections = typing.typos)
        /\ (typing.phase = "delete")
              => /\ Len(typing.field) = typing.pos
                 /\ SubSeq(typing.field, 1, typing.pos - 1) = TypedSoFar
                 /\ typing.field[typing.pos] # typing.text[typing.pos]
                 /\ typing.corrections = typing.typos - 1
        /\ (typing.typoChance = 0) => typing.typos = 0
        /\ (typing.typoChance = 100 /\ typing.phase \in {"draw", "done"})
              => typing.typos = typing.pos - 1

\* A three-character text was typed with a typo made and corrected at some
\* but not all positions.
C32_Witness ==
    /\ typing.phase = "done" /\ typing.text = <<"a", "b", "a">>
    /\ typing.field = typing.text
    /\ typing.typos = 2 /\ typing.corrections = 2

====
